---- MODULE Spec2Model ----
(***************************************************************************)
(* Lottery draw ingestion and statistics engine                            *)
(* (src/components/LotteryAnalysis.tsx, lines 910-1288: parseDate,         *)
(* pickRandomNumbers, regenerateSuggestions, processDraws,                 *)
(* parseRawDataToDraws, analyzeLotteryData).                               *)
(*                                                                         *)
(* Representation of JavaScript values:                                    *)
(*  - a cell / contest identifier is a record tagged by k:                 *)
(*      [k |-> "number", v |-> n]   the number n                           *)
(*      [k |-> "text", v |-> s]     the string s (s from Vocabulary)       *)
(*      [k |-> "date", d, m, y]     the string "d/m/y" (the three digit    *)
(*                                  groups the date regex captures)        *)
(*      [k |-> "undefined"]         a missing cell                         *)
(*  - a number is an integer: a whole number n is n itself, the number     *)
(*    w + t/10 (t in 1..9) is FracBase + 10w + t; Tenths gives the value   *)
(*    in tenths, and every comparison of numbers goes through it           *)
(*  - Number(x) is [nan |-> BOOLEAN, v |-> Int]                            *)
(*  - a Map is the sequence of its [key, val] entries in insertion order   *)
(*  - a Date is the number of its local calendar day (days since           *)
(*    1970-01-01); NoDate stands for null                                  *)
(*  - the string keys draw.join(',') and pair.join('-') are the tuples of  *)
(*    the joined numbers; the parity label is the tuple <<evens, odds>>    *)
(*  - avgInterval is held in hundredths (toFixed(2)): 100 is 1.00          *)
(***************************************************************************)
EXTENDS Integers, Sequences, FiniteSets, TLC

(***************************************************************************)
(* Bounds of the model                                                     *)
(***************************************************************************)
\* profile of the statistics specification: numbers 1..TotalNumbers
TotalNumbers == 4
\* numbers per draw in the statistics specification
DrawSize == 2
\* longest draw history handed to processDraws in the statistics specification
MaxDraws == 3
\* largest count of a frequency table handed to regenerateSuggestions
MaxCount == 1
\* largest betSize / hotCount / coldCount of the suggestion profiles
MaxBet == 3

\* program constants
TopPairsLimit == 10
LastDrawsLimit == 10

VARIABLES
    config,          \* the LotteryConfig in use
    allDraws,        \* the DrawData[] handed to processDraws
    frequencies,     \* the Frequency[] handed to regenerateSuggestions
    analysisResult,  \* the result of processDraws / analyzeLotteryData
    suggestions,     \* the GameSuggestions last generated
    files,           \* the batch handed to analyzeLotteryData
    error,           \* the error raised by analyzeLotteryData, NoError if none
    originalResult,  \* the result of the last successful upload
    startDate,       \* the value of the start-date input
    endDate,         \* the value of the end-date input
    timeZone,        \* the UTC offset of the user's environment, in hours
    selectedHot,     \* the hot numbers picked for the custom game
    selectedCold,    \* the cold numbers picked for the custom game
    selectedSuggestion, \* the game shown as selected, NoSelection if none
    selectedSuggestionType, \* 'hot', 'cold', 'mixed' or 'custom', NoType if none
    geminiAnalysis,  \* the AI summary shown, NoSummary if none
    geminiRequest,   \* the AI request in flight, NoRequest if none
    moduleScope,     \* what the module of regenerateSuggestions keeps between calls
    pc               \* "input" before the call, "loading" during it, "done" after it,
                     \* "filtered" once a date range is applied, "again" after a repeated call

vars ==
    <<config, allDraws, frequencies, analysisResult, suggestions, files, error,
      originalResult, startDate, endDate, timeZone, selectedHot, selectedCold,
      selectedSuggestion, selectedSuggestionType, geminiAnalysis, geminiRequest,
      moduleScope, pc>>

\* the state of the custom game picker and of the AI summary
selectionVars == <<selectedHot, selectedCold>>
selectedVars == <<selectedSuggestion, selectedSuggestionType>>
geminiVars == <<geminiAnalysis, geminiRequest>>

NoSelection == [k |-> "null"]

\* the module of pickRandomNumbers and regenerateSuggestions declares the two
\* functions and no binding that a call could assign: it keeps nothing
EmptyScope == <<>>
NoType == "null"
NoSummary == [k |-> "null"]
NoRequest == [k |-> "null"]

NoResult == [k |-> "null"]
NoSuggestions == [k |-> "null"]
NoError == [k |-> "null"]

\* the values of a date input: '' and 'YYYY-MM-DD', the latter held as the
\* number of its calendar day
EmptyString == [k |-> "empty"]
IsoDate(n) == [k |-> "iso", day |-> n]

\* the UTC offset of Brasilia, in hours
HomeZone == -3

(***************************************************************************)
(* JavaScript helpers                                                      *)
(***************************************************************************)
Min(a, b) == IF a <= b THEN a ELSE b
Max(a, b) == IF a >= b THEN a ELSE b

Num(n) == [k |-> "number", v |-> n]
Text(s) == [k |-> "text", v |-> s]
DateText(d, m, y) == [k |-> "date", d |-> d, m |-> m, y |-> y]
Undefined == [k |-> "undefined"]

\* Array.prototype.slice(start, end): negative indices count from the end
Slice(s, start, end) ==
    LET n == Len(s)
        from == IF start < 0 THEN Max(n + start, 0) ELSE Min(start, n)
        to == IF end < 0 THEN Max(n + end, 0) ELSE Min(end, n)
    IN IF to <= from THEN <<>> ELSE SubSeq(s, from + 1, to)

\* Array.prototype.slice(start)
SliceFrom(s, start) == Slice(s, start, Len(s))

\* Array.prototype.sort(cmp): stable, cmp a consistent comparator
StableSort(s, Cmp(_, _)) ==
    LET n == Len(s)
        Before(i, j) == Cmp(s[i], s[j]) < 0 \/ (Cmp(s[i], s[j]) = 0 /\ i < j)
        rank(i) == Cardinality({j \in 1..n : Before(j, i)}) + 1
    IN [r \in 1..n |-> s[CHOOSE i \in 1..n : rank(i) = r]]

\* the numbers from FracBase on stand for the numbers with a fractional part
FracBase == 1000

\* the value of a number, in tenths
Tenths(n) == IF n >= FracBase THEN n - FracBase ELSE 10 * n

\* a - b of two numbers, in tenths
Minus(a, b) == Tenths(a) - Tenths(b)

\* sort((a, b) => a - b)
SortAsc(s) == StableSort(s, LAMBDA a, b : Minus(a, b))

\* Array.prototype.filter
Filter(s, Keep(_)) ==
    LET idx == {i \in 1..Len(s) : Keep(s[i])}
        nth(r) == CHOOSE i \in idx : Cardinality({j \in idx : j < i}) = r - 1
    IN [r \in 1..Cardinality(idx) |-> s[nth(r)]]

\* mutant of Unique: repeated values are kept
UniqueKeepAll(s) == s

\* Array.from(new Set(s)): first occurrences, in order
RECURSIVE Unique(_)
Unique(s) ==
    IF s = <<>> THEN <<>>
    ELSE LET init == Unique(SubSeq(s, 1, Len(s) - 1))
             last == s[Len(s)]
         IN IF \E i \in 1..Len(init) : init[i] = last THEN init ELSE Append(init, last)

Range(s) == {s[i] : i \in 1..Len(s)}

\* Array.prototype.reverse()
Reversed(s) == [k \in 1..Len(s) |-> s[Len(s) + 1 - k]]

RECURSIVE SumSeq(_)
SumSeq(s) == IF s = <<>> THEN 0 ELSE Head(s) + SumSeq(Tail(s))

\* Math.max(...s), s non-empty
MaxOfSeq(s) == CHOOSE x \in Range(s) : \A y \in Range(s) : y <= x

\* Map.prototype.has / get / set over the insertion-ordered entry list
MapHas(m, key) == \E i \in 1..Len(m) : m[i].key = key
MapGet(m, key) == m[CHOOSE i \in 1..Len(m) : m[i].key = key].val
MapSet(m, key, val) ==
    IF MapHas(m, key)
    THEN [i \in 1..Len(m) |-> IF m[i].key = key THEN [key |-> key, val |-> val] ELSE m[i]]
    ELSE Append(m, [key |-> key, val |-> val])

\* Array.from(map.values())
MapValues(m) == [i \in 1..Len(m) |-> m[i].val]

(***************************************************************************)
(* Dates and parseDate                                                     *)
(***************************************************************************)
NoDate == [k |-> "null"]
DateOfDay(n) == [k |-> "Date", day |-> n]

\* date.getTime(), in days
GetTime(date) == date.day

\* the day number of the civil date y-m-d (m in 1..12) of the proleptic
\* Gregorian calendar
DaysFromCivil(y, m, d) ==
    LET yy == IF m <= 2 THEN y - 1 ELSE y
        era == yy \div 400
        yoe == yy - era * 400
        mp == (m + 9) % 12
        doy == (153 * mp + 2) \div 5 + d - 1
        doe == yoe * 365 + yoe \div 4 - yoe \div 100 + doy
    IN era * 146097 + doe - 719468

\* the civil date [y, m, d] (m in 1..12) of a day number
CivilFromDays(z) ==
    LET zz == z + 719468
        era == zz \div 146097
        doe == zz - era * 146097
        yoe == (doe - doe \div 1460 + doe \div 36524 - doe \div 146096) \div 365
        doy == doe - (365 * yoe + yoe \div 4 - yoe \div 100)
        mp == (5 * doy + 2) \div 153
        d == doy - (153 * mp + 2) \div 5 + 1
        m == IF mp < 10 THEN mp + 3 ELSE mp - 9
    IN [y |-> yoe + era * 400 + (IF m <= 2 THEN 1 ELSE 0), m |-> m, d |-> d]

\* new Date(year, month, day), month 0-based: a month or day out of range
\* rolls over into the neighbouring months and years
NewDate(year, month, day) ==
    DateOfDay(DaysFromCivil(year + month \div 12, (month % 12) + 1, 1) + day - 1)

\* date.toISOString().split('T')[0] of a local midnight: the time is taken in
\* UTC, so east of Greenwich the string names the day before
ToISODate(date, offset) == IsoDate(IF offset > 0 THEN date.day - 1 ELSE date.day)

GetFullYear(date) == CivilFromDays(date.day).y
GetMonth(date) == CivilFromDays(date.day).m - 1
GetDate(date) == CivilFromDays(date.day).d

\* !dateStr
Falsy(cell) ==
    \/ cell.k = "undefined"
    \/ (cell.k = "text" /\ cell.v = "")
    \/ (cell.k = "number" /\ cell.v = 0)

\* mutant of ParseDate: the rebuilt date is not compared with the fields
ParseDateUnchecked(cell) ==
    IF cell.k # "date" THEN [k |-> "null"]
    ELSE NewDate(IF cell.y < 100 THEN cell.y + (IF cell.y > 50 THEN 1900 ELSE 2000) ELSE cell.y,
                 cell.m - 1, cell.d)

\* parseDate(dateStr): only a "date" cell holds text the pattern
\* day[/-.]month[/-.]year matches; its groups are the fields d, m, y
ParseDate(cell) ==
    IF Falsy(cell) THEN NoDate
    ELSE IF cell.k # "date" THEN NoDate
    ELSE LET day == cell.d
             month == cell.m - 1
             year == IF cell.y < 100
                     THEN cell.y + (IF cell.y > 50 THEN 1900 ELSE 2000)
                     ELSE cell.y
             date == NewDate(year, month, day)
         IN IF GetFullYear(date) = year /\ GetMonth(date) = month /\ GetDate(date) = day
            THEN date
            ELSE NoDate

(***************************************************************************)
(* Cells: Number(cell), String(cell).toLowerCase() and the header regexes  *)
(***************************************************************************)
\* the strings of text cells
Vocabulary == {"", "x", "4", "2.5", "Concurso", "Data", "Bola1", "Bola2", "Bola3"}

\* the number cell holding w + t/10
Decimal(w, t) == [k |-> "number", v |-> FracBase + 10 * w + t]

NaN == [nan |-> TRUE, v |-> 0]
Finite(n) == [nan |-> FALSE, v |-> n]

\* Number(cell): '' is 0, a numeric string its number, other text, a date
\* string and undefined are NaN
NumberOf(cell) ==
    IF cell.k = "number" THEN Finite(cell.v)
    ELSE IF cell.k = "text"
    THEN (CASE cell.v = "" -> Finite(0)
            [] cell.v = "4" -> Finite(4)
            [] cell.v = "2.5" -> Finite(FracBase + 25)
            [] OTHER -> NaN)
    ELSE NaN

\* String(cell).toLowerCase() of a text cell; the string of a number, of a
\* date string and of undefined holds none of the header words
LowerString(cell) ==
    IF cell.k = "text"
    THEN (CASE cell.v = "Concurso" -> "concurso"
            [] cell.v = "Data" -> "data"
            [] cell.v = "Bola1" -> "bola1"
            [] cell.v = "Bola2" -> "bola2"
            [] cell.v = "Bola3" -> "bola3"
            [] OTHER -> cell.v)
    ELSE "#"

\* /concurso/i.test(h)
ContestColumnRegex(h) == h \in {"concurso"}
\* /data/i.test(h)
DateColumnRegex(h) == h \in {"data"}
\* /(bola|dezena|d)\s*_?\d+/i.test(h)
DrawColumnRegex(h) == h \in {"bola1", "bola2", "bola3"}

\* row[index], index 0-based: undefined past the end of the row
CellAt(row, index) == IF index >= 0 /\ index < Len(row) THEN row[index + 1] ELSE Undefined

\* !isNaN(n) && n >= 1 && n <= config.totalNumbers
InRange(n, cfg) == ~n.nan /\ Tenths(n.v) >= 10 /\ Tenths(n.v) <= 10 * cfg.totalNumbers

\* cells.map(cell => Number(cell)).filter(in range), as plain numbers
NumbersInRange(cells, cfg) ==
    LET kept == Filter([i \in 1..Len(cells) |-> NumberOf(cells[i])], LAMBDA n : InRange(n, cfg))
    IN [i \in 1..Len(kept) |-> kept[i].v]

(***************************************************************************)
(* parseRawDataToDraws                                                     *)
(***************************************************************************)
HeaderScanLimit == 10

\* row.findIndex(h => regex.test(h)) over the lower-cased row, 0-based, -1 if none
ContestIndexOf(row) ==
    LET hits == {i \in 1..Len(row) : ContestColumnRegex(LowerString(row[i]))}
    IN IF hits = {} THEN -1 ELSE (CHOOSE i \in hits : \A j \in hits : i <= j) - 1

DateIndexOf(row) ==
    LET hits == {i \in 1..Len(row) : DateColumnRegex(LowerString(row[i]))}
    IN IF hits = {} THEN -1 ELSE (CHOOSE i \in hits : \A j \in hits : i <= j) - 1

\* the 0-based indices of the cells matching the number-slot pattern, ascending
DrawIndicesOf(row) ==
    LET hits == {i \in 1..Len(row) : DrawColumnRegex(LowerString(row[i]))}
    IN [r \in 1..Cardinality(hits) |->
           (CHOOSE i \in hits : Cardinality({j \in hits : j < i}) = r - 1) - 1]

\* Strategy 1: the condition on row i (0-based) of the first loop
StrictHeaderAt(rawData, i, cfg) ==
    LET row == rawData[i + 1]
    IN /\ ContestIndexOf(row) # -1
       /\ DateIndexOf(row) # -1
       /\ Len(DrawIndicesOf(row)) >= cfg.drawSize

\* Strategy 2: the condition on row i (0-based) of the second loop
LooseHeaderAt(rawData, i, cfg) ==
    LET row == rawData[i + 1]
    IN /\ ContestIndexOf(row) # -1
       /\ DateIndexOf(row) # -1
       /\ i + 1 < Len(rawData)
       /\ Len(NumbersInRange(rawData[i + 2], cfg)) >= cfg.drawSize

NoHeader ==
    [headerRowIndex |-> -1, contestIndex |-> -1, dateIndex |-> -1,
     strict |-> FALSE, drawIndices |-> <<>>]

\* the least 0-based row index of a set, -1 when the loop found none
FirstRowOf(S) == IF S = {} THEN -1 ELSE CHOOSE i \in S : \A j \in S : i <= j

\* the values the first loop leaves when it breaks at row i
StrictHeader(row, i, cfg) ==
    [headerRowIndex |-> i,
     contestIndex |-> ContestIndexOf(row),
     dateIndex |-> DateIndexOf(row),
     strict |-> TRUE,
     drawIndices |-> Slice(DrawIndicesOf(row), 0, cfg.drawSize)]

\* the values the second loop leaves when it breaks at row i
LooseHeader(row, i) ==
    [headerRowIndex |-> i,
     contestIndex |-> ContestIndexOf(row),
     dateIndex |-> DateIndexOf(row),
     strict |-> FALSE,
     drawIndices |-> <<>>]

\* mutant of HeaderAt: the earlier of the two rows wins, whatever its strategy
HeaderAtEarliest(rawData, strictRow, looseRow, cfg) ==
    IF strictRow # -1 /\ (looseRow = -1 \/ strictRow <= looseRow)
    THEN StrictHeader(rawData[strictRow + 1], strictRow, cfg)
    ELSE IF looseRow # -1 THEN LooseHeader(rawData[looseRow + 1], looseRow)
    ELSE NoHeader

\* the header the two loops leave, breaking at rows strictRow and looseRow
HeaderAt(rawData, strictRow, looseRow, cfg) ==
    IF strictRow # -1 THEN StrictHeader(rawData[strictRow + 1], strictRow, cfg)
    ELSE IF looseRow # -1 THEN LooseHeader(rawData[looseRow + 1], looseRow)
    ELSE NoHeader

\* the rows the two loops scan, 0-based
ScannedRows(rawData) == 0..(Min(Len(rawData), HeaderScanLimit) - 1)

\* the header detection: the first row of the first ten satisfying strategy
\* 1, else the first satisfying strategy 2; strict is drawIndices !== null
LocateHeader(rawData, cfg) ==
    HeaderAt(rawData,
             FirstRowOf({i \in ScannedRows(rawData) : StrictHeaderAt(rawData, i, cfg)}),
             FirstRowOf({i \in ScannedRows(rawData) : LooseHeaderAt(rawData, i, cfg)}),
             cfg)

\* the cells a data row's numbers are read from
NumberCells(row, header) ==
    IF header.strict
    THEN [j \in 1..Len(header.drawIndices) |-> CellAt(row, header.drawIndices[j])]
    ELSE row

\* the candidate {contest, draw, date} of a data row
ExtractRow(row, header, cfg) ==
    [contest |-> CellAt(row, header.contestIndex),
     draw |-> SortAsc(Unique(NumbersInRange(NumberCells(row, header), cfg))),
     date |-> ParseDate(CellAt(row, header.dateIndex))]

\* the filter keeping the candidates that are draws
IsValidDraw(d, cfg) ==
    /\ Len(d.draw) = cfg.drawSize
    /\ d.contest # Text("")
    /\ d.contest # Undefined
    /\ d.date.k = "Date"

\* dataRows.map(...).filter(...) over the rows after the header
DrawsOfRows(dataRows, header, cfg) ==
    Filter([i \in 1..Len(dataRows) |-> ExtractRow(dataRows[i], header, cfg)],
           LAMBDA d : IsValidDraw(d, cfg))

\* parseRawDataToDraws once the header detection is over
ParseUnderHeader(rawData, header, cfg) ==
    IF header.headerRowIndex = -1 \/ header.dateIndex = -1
    THEN [failed |-> TRUE, draws |-> <<>>]
    ELSE [failed |-> FALSE,
          draws |-> DrawsOfRows(SliceFrom(rawData, header.headerRowIndex + 1), header, cfg)]

\* parseRawDataToDraws(rawData, config): the draws, or failed when it throws
ParseRawDataToDraws(rawData, cfg) ==
    IF Len(rawData) = 0 THEN [failed |-> FALSE, draws |-> <<>>]
    ELSE ParseUnderHeader(rawData, LocateHeader(rawData, cfg), cfg)

(***************************************************************************)
(* pickRandomNumbers and regenerateSuggestions                             *)
(***************************************************************************)
\* pickRandomNumbers(numbers, count): every result the random shuffle can
\* give. The shuffle yields some permutation of numbers; slice(0, count)
\* keeps the entries of some set of positions, which are then sorted.
PickRandomNumbers(numbers, count) ==
    LET kept == Len(Slice(numbers, 0, count))
    IN {SortAsc([j \in 1..kept |->
                    numbers[CHOOSE i \in I : Cardinality({h \in I : h < i}) = j - 1]]) :
           I \in {J \in SUBSET (1..Len(numbers)) : Cardinality(J) = kept}}

\* [...frequencies].sort((a, b) => b.count - a.count)
SortedByFreq(freqs) == StableSort(freqs, LAMBDA a, b : b.count - a.count)

\* sortedByFreq.slice(0, config.hotCount).map(f => f.number)
HotNumbers(freqs, cfg) ==
    LET s == Slice(SortedByFreq(freqs), 0, cfg.hotCount)
    IN [i \in 1..Len(s) |-> s[i].number]

\* mutant of ColdNumbers: slice(coldCount) in place of slice(-coldCount)
ColdNumbersFromStart(freqs, cfg) ==
    LET s == SliceFrom(SortedByFreq(freqs), cfg.coldCount)
    IN [i \in 1..Len(s) |-> s[i].number]

\* sortedByFreq.slice(-config.coldCount).map(f => f.number)
ColdNumbers(freqs, cfg) ==
    LET s == SliceFrom(SortedByFreq(freqs), 0 - cfg.coldCount)
    IN [i \in 1..Len(s) |-> s[i].number]

\* Math.ceil(config.betSize / 2)
HotHalf(cfg) == (cfg.betSize + 1) \div 2

\* mutant of MixedSuggestions: a short mix is not filled up
MixedSuggestionsNoFill(freqs, cfg, mixedHot, mixedCold) ==
    LET uniqueMixed == Unique(mixedHot \o mixedCold)
    IN IF Len(uniqueMixed) > cfg.betSize
       THEN {SortAsc(m) : m \in PickRandomNumbers(uniqueMixed, cfg.betSize)}
       ELSE {SortAsc(uniqueMixed)}

\* the mixed suggestions reachable from one choice of mixedHot and mixedCold
MixedSuggestions(freqs, cfg, mixedHot, mixedCold) ==
    LET uniqueMixed == Unique(mixedHot \o mixedCold)
        allNumbers == [i \in 1..Len(freqs) |-> freqs[i].number]
        allAvailableNumbers ==
            Filter(allNumbers, LAMBDA n : \A i \in 1..Len(uniqueMixed) : uniqueMixed[i] # n)
        needed == cfg.betSize - Len(uniqueMixed)
    IN IF Len(uniqueMixed) < cfg.betSize
       THEN {SortAsc(uniqueMixed \o filler) :
                filler \in PickRandomNumbers(allAvailableNumbers, needed)}
       ELSE IF Len(uniqueMixed) > cfg.betSize
       THEN {SortAsc(m) : m \in PickRandomNumbers(uniqueMixed, cfg.betSize)}
       ELSE {SortAsc(uniqueMixed)}

\* regenerateSuggestions(frequencies, config): every result it can return
RegenerateSuggestions(freqs, cfg) ==
    LET hotNumbers == HotNumbers(freqs, cfg)
        coldNumbers == ColdNumbers(freqs, cfg)
        hotHalf == HotHalf(cfg)
        coldHalf == cfg.betSize - hotHalf
    IN UNION {UNION {
          {[hot |-> hotSuggestion, cold |-> coldSuggestion, mixed |-> mixedSuggestion] :
              hotSuggestion \in PickRandomNumbers(hotNumbers, cfg.betSize),
              coldSuggestion \in PickRandomNumbers(coldNumbers, cfg.betSize),
              mixedSuggestion \in MixedSuggestions(freqs, cfg, mixedHot, mixedCold)} :
          mixedCold \in PickRandomNumbers(coldNumbers, coldHalf)} :
          mixedHot \in PickRandomNumbers(hotNumbers, hotHalf)}

\* what an invocation of regenerateSuggestions can reach besides its locals:
\* the array frequencies and the object config it is given by reference, and
\* the scope of its module
Reach(freqs, cfg, scope) == [frequencies |-> freqs, config |-> cfg, module |-> scope]

\* mutant of SortedCopy: frequencies.sort(...) without the spread, sort
\* orders the array of the caller in place and returns that same array
SortedInPlace(reach) ==
    [sortedByFreq |-> SortedByFreq(reach.frequencies),
     reach |-> [reach EXCEPT !.frequencies = SortedByFreq(reach.frequencies)]]

\* const sortedByFreq = [...frequencies].sort(...): the spread makes a new
\* array, sort orders that new array in place and returns it; the array of
\* the caller is another one and stays as it is
SortedCopy(reach) ==
    [sortedByFreq |-> SortedByFreq(reach.frequencies),
     reach |-> reach]

\* an invocation of regenerateSuggestions(frequencies, config): what it
\* returns and what it leaves in all it can reach. After the sort the body
\* works on new arrays only (slice, map, filter, the spread of
\* pickRandomNumbers, Array.from) and reads config; it names no binding of
\* the module other than pickRandomNumbers
Invocations(freqs, cfg, scope) ==
    {[returned |-> returned, left |-> SortedCopy(Reach(freqs, cfg, scope)).reach] :
        returned \in RegenerateSuggestions(freqs, cfg)}

(***************************************************************************)
(* processDraws                                                            *)
(***************************************************************************)
EmptyMaps ==
    [frequencyMap |-> <<>>, drawsByNumber |-> <<>>, drawStrings |-> <<>>,
     pairFrequencyMap |-> <<>>, evenOddDistributionMap |-> <<>>,
     lastSeen |-> <<>>, intervals |-> <<>>]

\* mutant of Increment: the previous count is dropped
IncrementToOne(m, key) == MapSet(m, key, 1)

\* map.set(key, (map.get(key) || 0) + 1)
Increment(m, key) == MapSet(m, key, (IF MapHas(m, key) THEN MapGet(m, key) ELSE 0) + 1)

\* if (!map.has(key)) map.set(key, []); map.get(key).push(item)
PushTo(m, key, item) == MapSet(m, key, Append(IF MapHas(m, key) THEN MapGet(m, key) ELSE <<>>, item))

\* mutant of NumStep: lastSeen keeps the first index a number was seen at
NumStepFirstSeen(acc, num, contest, index) ==
    [acc EXCEPT
        !.frequencyMap = Increment(acc.frequencyMap, num),
        !.drawsByNumber = PushTo(acc.drawsByNumber, num, contest),
        !.intervals = IF MapHas(acc.lastSeen, num)
                      THEN PushTo(acc.intervals, num, index - MapGet(acc.lastSeen, num))
                      ELSE acc.intervals,
        !.lastSeen = IF MapHas(acc.lastSeen, num) THEN acc.lastSeen
                     ELSE MapSet(acc.lastSeen, num, index)]

\* mutant of NumStep: the list of a number holds its latest contest only
NumStepLatestContest(acc, num, contest, index) ==
    [acc EXCEPT
        !.frequencyMap = Increment(acc.frequencyMap, num),
        !.drawsByNumber = MapSet(acc.drawsByNumber, num, <<contest>>),
        !.intervals = IF MapHas(acc.lastSeen, num)
                      THEN PushTo(acc.intervals, num, index - MapGet(acc.lastSeen, num))
                      ELSE acc.intervals,
        !.lastSeen = MapSet(acc.lastSeen, num, index)]

\* body of draw.forEach(num => ...), index the 0-based position of the draw
NumStep(acc, num, contest, index) ==
    [acc EXCEPT
        !.frequencyMap = Increment(acc.frequencyMap, num),
        !.drawsByNumber = PushTo(acc.drawsByNumber, num, contest),
        !.intervals = IF MapHas(acc.lastSeen, num)
                      THEN PushTo(acc.intervals, num, index - MapGet(acc.lastSeen, num))
                      ELSE acc.intervals,
        !.lastSeen = MapSet(acc.lastSeen, num, index)]

RECURSIVE NumLoop(_, _, _, _)
NumLoop(acc, draw, contest, index) ==
    IF draw = <<>> THEN acc
    ELSE NumLoop(NumStep(acc, Head(draw), contest, index), Tail(draw), contest, index)

\* the pairs (i, j), i < j, in the order of the two nested loops
PairPositions(n) ==
    LET all == {<<i, j>> \in (1..n) \X (1..n) : i < j}
        pos(p) == Cardinality({q \in all : q[1] < p[1] \/ (q[1] = p[1] /\ q[2] < p[2])}) + 1
    IN [r \in 1..Cardinality(all) |-> CHOOSE p \in all : pos(p) = r]

RECURSIVE PairLoop(_, _, _)
PairLoop(m, draw, positions) ==
    IF positions = <<>> THEN m
    ELSE LET p == Head(positions)
             pair == SortAsc(<<draw[p[1]], draw[p[2]]>>)
         IN PairLoop(Increment(m, pair), draw, Tail(positions))

\* the label of the parity split of a draw
EvenOddKey(draw) ==
    LET evens == Len(Filter(draw, LAMBDA n : Tenths(n) % 20 = 0))
    IN <<evens, Len(draw) - evens>>

\* body of allDraws.forEach(({contest, draw}, index) => ...)
DrawStep(acc, d, index) ==
    LET a1 == [acc EXCEPT !.drawStrings = PushTo(acc.drawStrings, d.draw, d.contest)]
        a2 == NumLoop(a1, d.draw, d.contest, index)
    IN [a2 EXCEPT
           !.pairFrequencyMap = PairLoop(a2.pairFrequencyMap, d.draw, PairPositions(Len(d.draw))),
           !.evenOddDistributionMap = Increment(a2.evenOddDistributionMap, EvenOddKey(d.draw))]

RECURSIVE DrawLoop(_, _, _)
DrawLoop(acc, draws, index) ==
    IF index >= Len(draws) THEN acc
    ELSE DrawLoop(DrawStep(acc, draws[index + 1], index), draws, index + 1)

\* the number of bits of a natural number
RECURSIVE BitLength(_)
BitLength(n) == IF n = 0 THEN 0 ELSE 1 + BitLength(n \div 2)

\* the bits of the double after those of the whole part: r / length is what
\* is left of the quotient, bitsLeft the bits the mantissa still holds and
\* lastBit the bit before; -1 when the double lies below the quotient, 0
\* when it is the quotient, 1 when it lies above (round to nearest, ties to
\* even)
RECURSIVE FractionSide(_, _, _, _, _)
FractionSide(r, length, bitsLeft, started, lastBit) ==
    IF r = 0 THEN 0
    ELSE IF bitsLeft = 0
    THEN (IF 2 * r < length THEN -1
          ELSE IF 2 * r > length THEN 1
          ELSE IF lastBit = 0 THEN -1 ELSE 1)
    ELSE LET bit == (2 * r) \div length
             rest == (2 * r) % length
         IN IF ~started /\ bit = 0
            THEN FractionSide(rest, length, bitsLeft, FALSE, 0)
            ELSE FractionSide(rest, length, bitsLeft - 1, TRUE, bit)

\* sum / length of two naturals as a double (a mantissa of 53 bits): on
\* which side of the exact quotient the double lies
QuotientSide(sum, length) ==
    FractionSide(sum % length, length, 53 - BitLength(sum \div length),
                 sum \div length > 0, (sum \div length) % 2)

\* (sum / length).toFixed(2), in hundredths: the hundredth nearest to the
\* double; the double decides when the exact quotient lies half way between
\* two hundredths, and the larger one is taken when the double lies half
\* way itself
ToFixed2(sum, length) ==
    LET below == (100 * sum) \div length
        rest == (100 * sum) % length
    IN IF 2 * rest < length THEN below
       ELSE IF 2 * rest > length THEN below + 1
       ELSE IF QuotientSide(sum, length) < 0 THEN below ELSE below + 1

\* mutant of AvgInterval: the digits after the second decimal are cut off
AvgIntervalTruncated(numIntervals) ==
    IF Len(numIntervals) > 0
    THEN (100 * SumSeq(numIntervals)) \div Len(numIntervals)
    ELSE 0

\* parseFloat(avgInterval.toFixed(2)), in hundredths
AvgInterval(numIntervals) ==
    IF Len(numIntervals) > 0
    THEN ToFixed2(SumSeq(numIntervals), Len(numIntervals))
    ELSE 0

\* allDraws.length - 1 - lastSeenIndex, or allDraws.length when never seen
CurrentDelay(lastSeen, i, length) ==
    IF MapHas(lastSeen, i) THEN length - 1 - MapGet(lastSeen, i) ELSE length

\* the interval statistics loop, i from 1 to config.totalNumbers
IntervalStats(acc, length, cfg) ==
    [i \in 1..cfg.totalNumbers |->
        LET numIntervals == IF MapHas(acc.intervals, i) THEN MapGet(acc.intervals, i) ELSE <<>>
        IN [number |-> i,
            avgInterval |-> AvgInterval(numIntervals),
            maxDelay |-> IF Len(numIntervals) > 0 THEN MaxOfSeq(numIntervals) ELSE 0,
            currentDelay |-> CurrentDelay(acc.lastSeen, i, length)]]

\* mutant of ZeroFill: the numbers never drawn get no entry
ZeroFillNothing(m, i, totalNumbers, empty) == m

\* if (!map.has(i)) map.set(i, empty), i from 1 to totalNumbers
RECURSIVE ZeroFill(_, _, _, _)
ZeroFill(m, i, totalNumbers, empty) ==
    IF i > totalNumbers THEN m
    ELSE ZeroFill(IF MapHas(m, i) THEN m ELSE MapSet(m, i, empty), i + 1, totalNumbers, empty)

\* Array.from(frequencyMap.entries()).map(...).sort(by count desc, number asc)
Frequencies(frequencyMap) ==
    StableSort([i \in 1..Len(frequencyMap) |->
                    [number |-> frequencyMap[i].key, count |-> frequencyMap[i].val]],
               LAMBDA a, b : IF b.count - a.count # 0 THEN b.count - a.count
                             ELSE Minus(a.number, b.number))

\* mutant of RepeatedDraws: every combination gets a group
RepeatedDrawsAll(drawStrings) ==
    [i \in 1..Len(drawStrings) |-> [draw |-> drawStrings[i].key, contests |-> drawStrings[i].val]]

\* the groups of drawStrings with more than one contest
RepeatedDraws(drawStrings) ==
    LET groups == Filter(drawStrings, LAMBDA e : Len(e.val) > 1)
    IN [i \in 1..Len(groups) |-> [draw |-> groups[i].key, contests |-> groups[i].val]]

\* mutant of TopPairs: the first ten pairs in the order they were first met
TopPairsUnsorted(pairFrequencyMap) ==
    Slice([i \in 1..Len(pairFrequencyMap) |->
              [pair |-> pairFrequencyMap[i].key, count |-> pairFrequencyMap[i].val]],
          0, TopPairsLimit)

\* the pairs by decreasing count, cut to the first ten
TopPairs(pairFrequencyMap) ==
    Slice(StableSort([i \in 1..Len(pairFrequencyMap) |->
                         [pair |-> pairFrequencyMap[i].key, count |-> pairFrequencyMap[i].val]],
                     LAMBDA a, b : b.count - a.count),
          0, TopPairsLimit)

\* the parity labels by decreasing count
EvenOddDistribution(evenOddDistributionMap) ==
    StableSort([i \in 1..Len(evenOddDistributionMap) |->
                   [distribution |-> evenOddDistributionMap[i].key,
                    count |-> evenOddDistributionMap[i].val]],
               LAMBDA a, b : b.count - a.count)

\* processDraws(allDraws, config) without the suggestions
ProcessDrawsStats(draws, cfg) ==
    LET acc == DrawLoop(EmptyMaps, draws, 0)
        intervalStats == IntervalStats(acc, Len(draws), cfg)
        frequencyMap == ZeroFill(acc.frequencyMap, 1, cfg.totalNumbers, 0)
        drawsByNumber == ZeroFill(acc.drawsByNumber, 1, cfg.totalNumbers, <<>>)
    IN [totalDraws |-> Len(draws),
        frequencies |-> Frequencies(frequencyMap),
        repeatedDraws |-> RepeatedDraws(acc.drawStrings),
        lastDraws |-> Slice(draws, 0, LastDrawsLimit),
        drawsByNumber |-> drawsByNumber,
        topPairs |-> TopPairs(acc.pairFrequencyMap),
        evenOddDistribution |-> EvenOddDistribution(acc.evenOddDistributionMap),
        intervalStats |-> intervalStats]

\* processDraws(allDraws, config): every result it can return
ProcessDraws(draws, cfg) ==
    LET stats == ProcessDrawsStats(draws, cfg)
    IN {[totalDraws |-> stats.totalDraws,
         frequencies |-> stats.frequencies,
         repeatedDraws |-> stats.repeatedDraws,
         suggestions |-> s,
         lastDraws |-> stats.lastDraws,
         drawsByNumber |-> stats.drawsByNumber,
         topPairs |-> stats.topPairs,
         evenOddDistribution |-> stats.evenOddDistribution,
         intervalStats |-> stats.intervalStats] :
           s \in RegenerateSuggestions(stats.frequencies, cfg)}

(***************************************************************************)
(* analyzeLotteryData                                                      *)
(***************************************************************************)
\* readFileData(file): the grid the file decodes to is kept with the file
ReadFileData(file) == file.rows

\* readFileData(file) rejects: the bytes cannot be read or decoded
ReadFails(file) == ~file.readable

\* readFileData then parseRawDataToDraws on a file: the draws, or failed
\* when either throws
ReadAndParse(file, cfg) ==
    IF ReadFails(file) THEN [failed |-> TRUE, draws |-> <<>>]
    ELSE ParseRawDataToDraws(ReadFileData(file), cfg)

\* mutant of SetDraw: a contest already in the map keeps its first draw
SetDrawKeepFirst(map, draw) == IF MapHas(map, draw.contest) THEN map ELSE MapSet(map, draw.contest, draw)

\* mutant of SetDraw: every draw is added, whatever its contest
SetDrawAppend(map, draw) == Append(map, [key |-> draw.contest, val |-> draw])

\* allDrawsMap.set(draw.contest, draw)
SetDraw(map, draw) == MapSet(map, draw.contest, draw)

\* for (const draw of drawsFromFile) allDrawsMap.set(draw.contest, draw)
RECURSIVE MergeDraws(_, _)
MergeDraws(map, draws) ==
    IF draws = <<>> THEN map ELSE MergeDraws(SetDraw(map, Head(draws)), Tail(draws))

\* the error a failing file is re-raised as: it names the file
FileError(file) == [k |-> "error", kind |-> "file", file |-> file.name]

\* the error raised when the merged map is empty: it names drawSize and the range
NoValidDrawsError(cfg) ==
    [k |-> "error", kind |-> "noValidDraws", drawSize |-> cfg.drawSize,
     totalNumbers |-> cfg.totalNumbers]

\* the loop over the files, from file i on: it stops at the first file that fails
RECURSIVE FileLoop(_, _, _, _, _)
RECURSIVE FileStep(_, _, _, _, _, _)

\* mutant of FileStep: the error names the first file of the batch
FileStepNamesFirst(fs, cfg, i, allDrawsMap, fileNames, parsed) ==
    IF parsed.failed
    THEN [error |-> FileError(fs[1]), allDrawsMap |-> allDrawsMap, fileNames |-> fileNames]
    ELSE FileLoop(fs, cfg, i + 1, MergeDraws(allDrawsMap, parsed.draws), fileNames)

FileLoop(fs, cfg, i, allDrawsMap, fileNames) ==
    IF i > Len(fs)
    THEN [error |-> NoError, allDrawsMap |-> allDrawsMap, fileNames |-> fileNames]
    ELSE FileStep(fs, cfg, i, allDrawsMap, Append(fileNames, fs[i].name),
                  ReadAndParse(fs[i], cfg))

\* the body of the loop for file i, parsed being what readFileData and
\* parseRawDataToDraws gave
FileStep(fs, cfg, i, allDrawsMap, fileNames, parsed) ==
    IF parsed.failed
    THEN [error |-> FileError(fs[i]), allDrawsMap |-> allDrawsMap, fileNames |-> fileNames]
    ELSE FileLoop(fs, cfg, i + 1, MergeDraws(allDrawsMap, parsed.draws), fileNames)

\* mutant of SortNewestFirst: the draws stay in the order of the map
SortNotAtAll(draws) == draws

\* consolidatedDraws.sort((a, b) => b.date.getTime() - a.date.getTime())
SortNewestFirst(draws) == StableSort(draws, LAMBDA a, b : GetTime(b.date) - GetTime(a.date))

\* mutant of AfterFileLoop: the empty map is looked at before the file error
AfterFileLoopEmptyFirst(looped, cfg) ==
    IF Len(looped.allDrawsMap) = 0
    THEN [error |-> NoValidDrawsError(cfg), fileNames |-> looped.fileNames, draws |-> <<>>]
    ELSE IF looped.error.k = "error"
    THEN [error |-> looped.error, fileNames |-> looped.fileNames, draws |-> <<>>]
    ELSE [error |-> NoError, fileNames |-> looped.fileNames,
          draws |-> SortNewestFirst(MapValues(looped.allDrawsMap))]

\* analyzeLotteryData after the loop over the files
AfterFileLoop(looped, cfg) ==
    IF looped.error.k = "error"
    THEN [error |-> looped.error, fileNames |-> looped.fileNames, draws |-> <<>>]
    ELSE IF Len(looped.allDrawsMap) = 0
    THEN [error |-> NoValidDrawsError(cfg), fileNames |-> looped.fileNames, draws |-> <<>>]
    ELSE [error |-> NoError, fileNames |-> looped.fileNames,
          draws |-> SortNewestFirst(MapValues(looped.allDrawsMap))]

\* analyzeLotteryData up to the sorted consolidatedDraws
Consolidate(fs, cfg) == AfterFileLoop(FileLoop(fs, cfg, 1, <<>>, <<>>), cfg)

\* the AnalysisResult built from consolidatedDraws and processDraws' result r
ResultOf(fileNames, consolidatedDraws, r) ==
    [fileNames |-> fileNames,
     allDraws |-> consolidatedDraws,
     totalDraws |-> r.totalDraws,
     frequencies |-> r.frequencies,
     repeatedDraws |-> r.repeatedDraws,
     suggestions |-> r.suggestions,
     lastDraws |-> r.lastDraws,
     drawsByNumber |-> r.drawsByNumber,
     topPairs |-> r.topPairs,
     evenOddDistribution |-> r.evenOddDistribution,
     intervalStats |-> r.intervalStats]

\* the outcomes of analyzeLotteryData once the draws are consolidated
OutcomesOf(c, cfg) ==
    IF c.error.k = "error"
    THEN {[error |-> c.error, draws |-> <<>>, result |-> NoResult]}
    ELSE {[error |-> NoError, draws |-> c.draws, result |-> ResultOf(c.fileNames, c.draws, r)] :
             r \in ProcessDraws(c.draws, cfg)}

\* analyzeLotteryData(files, config): every outcome, an error or a result
AnalyzeLotteryData(fs, cfg) == OutcomesOf(Consolidate(fs, cfg), cfg)

(***************************************************************************)
(* Spec: the first upload of a batch of files (handleFileChange calling    *)
(* analyzeLotteryData)                                                     *)
(***************************************************************************)
\* longest batch of files
MaxFiles == 2
\* most data rows of a batch, all its files together (a file and its copy
\* count once)
MaxBatchRows == 2

PipelineConfig ==
    [totalNumbers |-> 4, drawSize |-> 2, betSize |-> 2, hotCount |-> 2, coldCount |-> 2]

\* the names of the files of a batch, by position
FileNames == <<"a.csv", "b.csv", "c.csv", "d.csv">>

\* header rows: three number slots, no slot label, and no header row at all
StrictHeaderRow == <<Text("Concurso"), Text("Data"), Text("Bola1"), Text("Bola2"), Text("Bola3")>>
LooseHeaderRow == <<Text("Concurso"), Text("Data"), Text("x"), Text("x"), Text("x")>>
HeaderRows == {StrictHeaderRow, LooseHeaderRow, <<>>}

\* data rows: contest, date, three cells
DataRows ==
    {<<Num(7), DateText(1, 1, 2024), Num(1), Num(2), Text("")>>,
     <<Num(7), DateText(2, 1, 2024), Num(3), Text("4"), Text("")>>,
     <<Num(8), DateText(2, 1, 2024), Num(2), Num(1), Num(3)>>,
     <<Num(8), DateText(31, 2, 2024), Num(1), Num(4), Text("")>>,
     <<Num(8), DateText(4, 1, 2024), Num(4), Num(4), Text("x")>>,
     <<Text(""), DateText(1, 1, 24), Num(2), Num(3)>>,
     <<Num(9), DateText(3, 1, 24), Num(4), Num(3), Num(5)>>}

\* the batch of Len(headers) files: file i has the header row headers[i], if
\* any, followed by the next lens[i] rows of flat
BatchOf(headers, lens, flat) ==
    [i \in 1..Len(headers) |->
        LET skipped == SumSeq(SubSeq(lens, 1, i - 1))
        IN [name |-> FileNames[i],
            readable |-> TRUE,
            rows |-> (IF headers[i] = <<>> THEN <<>> ELSE <<headers[i]>>)
                         \o SubSeq(flat, skipped + 1, skipped + lens[i])]]

Init ==
    /\ config = PipelineConfig
    /\ allDraws = <<>>
    /\ frequencies = <<>>
    /\ analysisResult = NoResult
    /\ suggestions = NoSuggestions
    /\ files = <<>>
    /\ error = NoError
    /\ originalResult = NoResult
    /\ startDate = EmptyString
    /\ endDate = EmptyString
    /\ timeZone = HomeZone
    /\ moduleScope = EmptyScope
    /\ selectedHot = <<>>
    /\ selectedCold = <<>>
    /\ selectedSuggestion = NoSelection
    /\ selectedSuggestionType = NoType
    /\ geminiAnalysis = NoSummary
    /\ geminiRequest = NoRequest
    /\ pc = "input"

\* the page offers the upload: the panel of the page without a result
\* (line 879) and the button of the error panel (line 866)
UploadOffered == pc = "input" \/ (pc \in {"done", "filtered"} /\ error # NoError)

\* handleFileChange on a non-empty selection of files, up to the await of
\* analyzeLotteryData
HandleFileChange(fs) ==
    /\ UploadOffered
    /\ Len(fs) > 0
    /\ files' = fs
    /\ error' = NoError
    /\ analysisResult' = NoResult
    /\ pc' = "loading"
    /\ UNCHANGED <<config, allDraws, frequencies, suggestions, originalResult, startDate,
                   endDate, timeZone, moduleScope>>
    /\ UNCHANGED <<selectionVars, selectedVars, geminiVars>>

\* handleFileChange after the await: the result of analyzeLotteryData on the
\* selection is stored and the error is left as it is, or the error of
\* analyzeLotteryData is stored
HandleFileChangeResumes ==
    /\ pc = "loading"
    /\ \E o \in AnalyzeLotteryData(files, config) :
          /\ error' = (IF o.error.k = "error" THEN o.error ELSE error)
          /\ analysisResult' = o.result
          /\ allDraws' = o.draws
          /\ frequencies' = (IF o.error.k = "error" THEN frequencies ELSE o.result.frequencies)
          /\ suggestions' = (IF o.error.k = "error" THEN suggestions ELSE o.result.suggestions)
          /\ originalResult' = (IF o.error.k = "error" THEN originalResult ELSE o.result)
          /\ startDate' = (IF o.error.k = "error" THEN startDate
                           ELSE ToISODate(o.draws[Len(o.draws)].date, timeZone))
          /\ endDate' = (IF o.error.k = "error" THEN endDate
                         ELSE ToISODate(o.draws[1].date, timeZone))
    /\ pc' = "done"
    /\ UNCHANGED <<config, files, timeZone, moduleScope>>
    /\ UNCHANGED <<selectionVars, selectedVars, geminiVars>>

\* the first upload: the selection is any batch
Upload ==
    /\ pc = "input"
    /\ \E n \in 1..MaxFiles : \E lens \in [1..n -> 0..MaxBatchRows] :
          /\ SumSeq(lens) <= MaxBatchRows
          /\ \E headers \in [1..n -> HeaderRows] : \E flat \in [1..SumSeq(lens) -> DataRows] :
                HandleFileChange(BatchOf(headers, lens, flat))

\* the first upload: the selection is a file and a copy of it
UploadCopy ==
    /\ pc = "input"
    /\ \E k \in 0..MaxBatchRows : \E header \in HeaderRows : \E flat \in [1..k -> DataRows] :
          HandleFileChange(BatchOf(<<header, header>>, <<k, k>>, flat \o flat))

\* the button of the error panel, shown with every error: the selection is
\* any file of no or one data row, whatever was selected before
UploadAgain ==
    /\ pc \in {"done", "filtered"}
    /\ error # NoError
    /\ \E header \in HeaderRows : \E flat \in {<<>>} \cup {<<row>> : row \in DataRows} :
          HandleFileChange(BatchOf(<<header>>, <<Len(flat)>>, flat))

Next == Upload \/ UploadCopy \/ UploadAgain \/ HandleFileChangeResumes

Spec == Init /\ [][Next]_vars

(***************************************************************************)
(* SpecDates: the upload of one file whose first data row carries any      *)
(* day/month/year text and whose second data row is a valid draw           *)
(***************************************************************************)
\* largest day and month number written in a date cell
MaxDay == 32
MaxMonth == 13

\* the years written in a date cell: two digits and four digits
DateYears == {24, 51, 1900, 2023, 2024}

\* the file: the row of contest 7 carries the date d/m/y
DatedFile(d, m, y) ==
    [name |-> FileNames[1],
     readable |-> TRUE,
     rows |-> <<StrictHeaderRow,
                <<Num(7), DateText(d, m, y), Num(1), Num(2), Text("x")>>,
                <<Num(8), DateText(28, 2, 2023), Num(3), Num(4), Text("x")>> >>]

InitDates ==
    /\ config = PipelineConfig
    /\ allDraws = <<>>
    /\ frequencies = <<>>
    /\ analysisResult = NoResult
    /\ suggestions = NoSuggestions
    /\ \E d \in 0..MaxDay : \E m \in 0..MaxMonth : \E y \in DateYears :
          files = <<DatedFile(d, m, y)>>
    /\ error = NoError
    /\ originalResult = NoResult
    /\ startDate = EmptyString
    /\ endDate = EmptyString
    /\ timeZone = HomeZone
    /\ moduleScope = EmptyScope
    /\ selectedHot = <<>>
    /\ selectedCold = <<>>
    /\ selectedSuggestion = NoSelection
    /\ selectedSuggestionType = NoType
    /\ geminiAnalysis = NoSummary
    /\ geminiRequest = NoRequest
    /\ pc = "input"

\* handleFileChange on the selected file
UploadSelected == HandleFileChange(files)

NextDates == UploadSelected \/ HandleFileChangeResumes

SpecDates == InitDates /\ [][NextDates]_vars

(***************************************************************************)
(* SpecCells: the upload of one file whose data row carries any cells      *)
(* under the number columns, with a number-slot header or a plain one      *)
(***************************************************************************)
\* the cells: whole numbers, numbers with a fractional part, numeric
\* strings, text and blanks
CellPool ==
    {Num(1), Num(2), Num(5), Decimal(1, 5), Text("2.5"), Text("4"), Text("x"), Text("")}

\* the file: the row of contest 7 carries the cells c1, c2, c3
CellFile(header, c1, c2, c3) ==
    [name |-> FileNames[1],
     readable |-> TRUE,
     rows |-> <<header, <<Num(7), DateText(1, 1, 2024), c1, c2, c3>> >>]

InitCells ==
    /\ config = PipelineConfig
    /\ allDraws = <<>>
    /\ frequencies = <<>>
    /\ analysisResult = NoResult
    /\ suggestions = NoSuggestions
    /\ \E header \in {StrictHeaderRow, LooseHeaderRow} : \E c1, c2, c3 \in CellPool :
          files = <<CellFile(header, c1, c2, c3)>>
    /\ error = NoError
    /\ originalResult = NoResult
    /\ startDate = EmptyString
    /\ endDate = EmptyString
    /\ timeZone = HomeZone
    /\ moduleScope = EmptyScope
    /\ selectedHot = <<>>
    /\ selectedCold = <<>>
    /\ selectedSuggestion = NoSelection
    /\ selectedSuggestionType = NoType
    /\ geminiAnalysis = NoSummary
    /\ geminiRequest = NoRequest
    /\ pc = "input"

NextCells == UploadSelected \/ HandleFileChangeResumes

SpecCells == InitCells /\ [][NextCells]_vars

(***************************************************************************)
(* SpecRead: the upload of a batch in which any file may be unreadable,    *)
(* lack its header, or hold a row that is no draw                          *)
(***************************************************************************)
\* longest batch of files
MaxReadFiles == 3

\* the data rows: a draw, and a row whose date is no date
ReadRows ==
    {<<Num(7), DateText(1, 1, 2024), Num(1), Num(2), Text("")>>,
     <<Num(8), DateText(31, 2, 2024), Num(1), Num(4), Text("")>>}

\* the grids: no row at all, a header alone or with a data row, a data row
\* without header
ReadGrids ==
    {<<>>, <<StrictHeaderRow>>}
        \cup {<<StrictHeaderRow, r>> : r \in ReadRows} \cup {<<r>> : r \in ReadRows}

InitRead ==
    /\ config = PipelineConfig
    /\ allDraws = <<>>
    /\ frequencies = <<>>
    /\ analysisResult = NoResult
    /\ suggestions = NoSuggestions
    /\ \E n \in 1..MaxReadFiles : \E readable \in [1..n -> BOOLEAN] :
          \E grids \in [1..n -> ReadGrids] :
             files = [i \in 1..n |->
                         [name |-> FileNames[i], readable |-> readable[i], rows |-> grids[i]]]
    /\ error = NoError
    /\ originalResult = NoResult
    /\ startDate = EmptyString
    /\ endDate = EmptyString
    /\ timeZone = HomeZone
    /\ moduleScope = EmptyScope
    /\ selectedHot = <<>>
    /\ selectedCold = <<>>
    /\ selectedSuggestion = NoSelection
    /\ selectedSuggestionType = NoType
    /\ geminiAnalysis = NoSummary
    /\ geminiRequest = NoRequest
    /\ pc = "input"

NextRead == UploadSelected \/ HandleFileChangeResumes

SpecRead == InitRead /\ [][NextRead]_vars

(***************************************************************************)
(* SpecHeader: the upload of one file whose grid carries up to two header  *)
(* rows, each after any number of rows of text, within and beyond the rows *)
(* the header detection scans                                              *)
(***************************************************************************)
\* most rows of text before a header row
MaxLeadRows == 11

\* a row of text: a title, a note
TextRow == <<Text("x")>>

\* a number-slot header whose labels are not in label order
ShuffledHeaderRow == <<Text("Concurso"), Text("Data"), Text("Bola3"), Text("Bola1"), Text("Bola2")>>

\* the header rows of a grid; <<>> stands for no header row
GridHeaderRows == {<<>>, LooseHeaderRow, StrictHeaderRow, ShuffledHeaderRow}

\* a header row, if any, with a data row below it, if any
HeaderBlock(header, dataRow, withData) ==
    (IF header = <<>> THEN <<>> ELSE <<header>>) \o (IF withData THEN <<dataRow>> ELSE <<>>)

\* the file: a text rows, a header block, b text rows, a header block
HeaderFile(a, first, d1, b, second, d2) ==
    [name |-> FileNames[1],
     readable |-> TRUE,
     rows |-> [i \in 1..a |-> TextRow]
                 \o HeaderBlock(first, <<Num(7), DateText(1, 1, 2024), Num(1), Num(2), Text("")>>, d1)
                 \o [i \in 1..b |-> TextRow]
                 \o HeaderBlock(second, <<Num(8), DateText(2, 1, 2024), Num(3), Num(1), Text("")>>, d2)]

InitHeader ==
    /\ config = PipelineConfig
    /\ allDraws = <<>>
    /\ frequencies = <<>>
    /\ analysisResult = NoResult
    /\ suggestions = NoSuggestions
    /\ \E a, b \in 0..MaxLeadRows : \E first, second \in GridHeaderRows : \E d1, d2 \in BOOLEAN :
          files = <<HeaderFile(a, first, d1, b, second, d2)>>
    /\ error = NoError
    /\ originalResult = NoResult
    /\ startDate = EmptyString
    /\ endDate = EmptyString
    /\ timeZone = HomeZone
    /\ moduleScope = EmptyScope
    /\ selectedHot = <<>>
    /\ selectedCold = <<>>
    /\ selectedSuggestion = NoSelection
    /\ selectedSuggestionType = NoType
    /\ geminiAnalysis = NoSummary
    /\ geminiRequest = NoRequest
    /\ pc = "input"

NextHeader == UploadSelected \/ HandleFileChangeResumes

SpecHeader == InitHeader /\ [][NextHeader]_vars

(***************************************************************************)
(* SpecContest: the upload of one file with a plain header whose data row  *)
(* carries any contest identifier, inside or outside 1..totalNumbers       *)
(***************************************************************************)
\* the contest identifiers: numbers inside and outside the range, a numeric
\* string, text
ContestPool == {Num(1), Num(3), Num(4), Num(7), Text("4"), Text("x")}

\* the cells under the number columns
NumberPool == {Num(1), Num(2), Num(3), Num(5), Text("")}

\* the file: a plain header and the row of the contest with cells c1, c2, c3
ContestFile(contest, c1, c2, c3) ==
    [name |-> FileNames[1],
     readable |-> TRUE,
     rows |-> <<LooseHeaderRow, <<contest, DateText(1, 1, 2024), c1, c2, c3>> >>]

InitContest ==
    /\ config = PipelineConfig
    /\ allDraws = <<>>
    /\ frequencies = <<>>
    /\ analysisResult = NoResult
    /\ suggestions = NoSuggestions
    /\ \E contest \in ContestPool : \E c1, c2, c3 \in NumberPool :
          files = <<ContestFile(contest, c1, c2, c3)>>
    /\ error = NoError
    /\ originalResult = NoResult
    /\ startDate = EmptyString
    /\ endDate = EmptyString
    /\ timeZone = HomeZone
    /\ moduleScope = EmptyScope
    /\ selectedHot = <<>>
    /\ selectedCold = <<>>
    /\ selectedSuggestion = NoSelection
    /\ selectedSuggestionType = NoType
    /\ geminiAnalysis = NoSummary
    /\ geminiRequest = NoRequest
    /\ pc = "input"

NextContest == UploadSelected \/ HandleFileChangeResumes

SpecContest == InitContest /\ [][NextContest]_vars

(***************************************************************************)
(* SpecKeys: a CSV file and a spreadsheet, one data row each; the contest  *)
(* cell of the CSV file is read as a number, the one of the spreadsheet    *)
(* keeps the type of its cell, number or text (readFileData,               *)
(* analyzeLotteryData)                                                     *)
(***************************************************************************)
MaxKeyDay == 2

\* the contest cells as readFileData returns them: Number(cell) of a CSV
\* cell, the native value of a spreadsheet cell
CsvContests == {Num(4), Num(7)}
SheetContests == {Num(4), Num(7), Text("4"), Text("7")}

\* the cells under the number columns
KeyNumbers == {Num(1), Num(2), Num(3)}

\* the file called name with the row of contest on day d, cells c1 and c2
KeyFile(name, contest, d, c1, c2) ==
    [name |-> name,
     readable |-> TRUE,
     rows |-> <<StrictHeaderRow, <<contest, DateText(d, 1, 2024), c1, c2, Text("")>> >>]

InitKeys ==
    /\ config = PipelineConfig
    /\ allDraws = <<>>
    /\ frequencies = <<>>
    /\ analysisResult = NoResult
    /\ suggestions = NoSuggestions
    /\ \E first \in CsvContests, second \in SheetContests :
          \E d1, d2 \in 1..MaxKeyDay : \E a1, a2, b1, b2 \in KeyNumbers :
             files = <<KeyFile("a.csv", first, d1, a1, a2), KeyFile("b.xlsx", second, d2, b1, b2)>>
    /\ error = NoError
    /\ originalResult = NoResult
    /\ startDate = EmptyString
    /\ endDate = EmptyString
    /\ timeZone = HomeZone
    /\ moduleScope = EmptyScope
    /\ selectedHot = <<>>
    /\ selectedCold = <<>>
    /\ selectedSuggestion = NoSelection
    /\ selectedSuggestionType = NoType
    /\ geminiAnalysis = NoSummary
    /\ geminiRequest = NoRequest
    /\ pc = "input"

NextKeys == UploadSelected \/ HandleFileChangeResumes

SpecKeys == InitKeys /\ [][NextKeys]_vars

(***************************************************************************)
(* SpecStats: processDraws applied to a well-formed DrawHistory            *)
(* (handleFilterApply hands it the filtered history, analyzeLotteryData    *)
(* the consolidated one)                                                   *)
(***************************************************************************)
StatsConfig ==
    [totalNumbers |-> TotalNumbers, drawSize |-> DrawSize, betSize |-> DrawSize,
     hotCount |-> DrawSize, coldCount |-> DrawSize]

\* the ascending sequence of the members of a set of numbers
SeqOfSet(S) == [r \in 1..Cardinality(S) |-> CHOOSE x \in S : Cardinality({y \in S : y < x}) = r - 1]

\* the draws of a profile: drawSize distinct numbers of the range, ascending
DrawsOf(cfg) ==
    {SeqOfSet(S) : S \in {D \in SUBSET (1..cfg.totalNumbers) : Cardinality(D) = cfg.drawSize}}

\* the histories of 1..MaxDraws draws, newest first: the draw at position i
\* carries contest number and day Len - i + 1
Histories(cfg) ==
    UNION {{[i \in 1..n |-> [contest |-> Num(n - i + 1), draw |-> ds[i], date |-> DateOfDay(n - i + 1)]] :
               ds \in [1..n -> DrawsOf(cfg)]} : n \in 1..MaxDraws}

InitStats ==
    /\ config = StatsConfig
    /\ allDraws \in Histories(StatsConfig)
    /\ frequencies = <<>>
    /\ analysisResult = NoResult
    /\ suggestions = NoSuggestions
    /\ files = <<>>
    /\ error = NoError
    /\ originalResult = NoResult
    /\ startDate = EmptyString
    /\ endDate = EmptyString
    /\ timeZone = HomeZone
    /\ moduleScope = EmptyScope
    /\ selectedHot = <<>>
    /\ selectedCold = <<>>
    /\ selectedSuggestion = NoSelection
    /\ selectedSuggestionType = NoType
    /\ geminiAnalysis = NoSummary
    /\ geminiRequest = NoRequest
    /\ pc = "input"

CallProcessDraws ==
    /\ pc = "input"
    /\ \E r \in ProcessDraws(allDraws, config) :
          /\ analysisResult' = r
          /\ frequencies' = r.frequencies
          /\ suggestions' = r.suggestions
    /\ pc' = "done"
    /\ UNCHANGED <<config, allDraws, files, error, originalResult, startDate, endDate,
                   timeZone, moduleScope>>
    /\ UNCHANGED <<selectionVars, selectedVars, geminiVars>>

NextStats == CallProcessDraws

SpecStats == InitStats /\ [][NextStats]_vars

(***************************************************************************)
(* SpecIntervals: processDraws applied to histories long enough for a      *)
(* number to occur four times with unequal gaps                            *)
(***************************************************************************)
\* longest history
MaxIntervalDraws == 6

IntervalConfig ==
    [totalNumbers |-> 3, drawSize |-> 2, betSize |-> 2, hotCount |-> 2, coldCount |-> 2]

\* the histories of 1..MaxIntervalDraws draws, newest first
IntervalHistories ==
    UNION {{[i \in 1..n |-> [contest |-> Num(n - i + 1), draw |-> ds[i], date |-> DateOfDay(n - i + 1)]] :
               ds \in [1..n -> DrawsOf(IntervalConfig)]} : n \in 1..MaxIntervalDraws}

InitIntervals ==
    /\ config = IntervalConfig
    /\ allDraws \in IntervalHistories
    /\ frequencies = <<>>
    /\ analysisResult = NoResult
    /\ suggestions = NoSuggestions
    /\ files = <<>>
    /\ error = NoError
    /\ originalResult = NoResult
    /\ startDate = EmptyString
    /\ endDate = EmptyString
    /\ timeZone = HomeZone
    /\ moduleScope = EmptyScope
    /\ selectedHot = <<>>
    /\ selectedCold = <<>>
    /\ selectedSuggestion = NoSelection
    /\ selectedSuggestionType = NoType
    /\ geminiAnalysis = NoSummary
    /\ geminiRequest = NoRequest
    /\ pc = "input"

NextIntervals == CallProcessDraws

SpecIntervals == InitIntervals /\ [][NextIntervals]_vars

(***************************************************************************)
(* SpecPairs: processDraws applied to histories whose draws hold more than *)
(* ten different pairs                                                     *)
(***************************************************************************)
\* longest history
MaxPairDraws == 3

PairsConfig ==
    [totalNumbers |-> 6, drawSize |-> 4, betSize |-> 1, hotCount |-> 1, coldCount |-> 1]

\* the draws of the histories: four numbers of 1..6, two draws sharing two
\* or three numbers
PairDraws ==
    {<<1, 2, 3, 4>>, <<3, 4, 5, 6>>, <<1, 2, 5, 6>>, <<1, 3, 5, 6>>,
     <<2, 4, 5, 6>>, <<1, 2, 4, 6>>, <<2, 3, 4, 5>>, <<1, 2, 3, 6>>}

\* the histories of 1..MaxPairDraws draws, newest first
PairHistories ==
    UNION {{[i \in 1..n |-> [contest |-> Num(n - i + 1), draw |-> ds[i], date |-> DateOfDay(n - i + 1)]] :
               ds \in [1..n -> PairDraws]} : n \in 1..MaxPairDraws}

InitPairs ==
    /\ config = PairsConfig
    /\ allDraws \in PairHistories
    /\ frequencies = <<>>
    /\ analysisResult = NoResult
    /\ suggestions = NoSuggestions
    /\ files = <<>>
    /\ error = NoError
    /\ originalResult = NoResult
    /\ startDate = EmptyString
    /\ endDate = EmptyString
    /\ timeZone = HomeZone
    /\ moduleScope = EmptyScope
    /\ selectedHot = <<>>
    /\ selectedCold = <<>>
    /\ selectedSuggestion = NoSelection
    /\ selectedSuggestionType = NoType
    /\ geminiAnalysis = NoSummary
    /\ geminiRequest = NoRequest
    /\ pc = "input"

NextPairs == CallProcessDraws

SpecPairs == InitPairs /\ [][NextPairs]_vars

(***************************************************************************)
(* SpecFilter: a consolidated history is shown, the date inputs are set    *)
(* and the date range is applied (handleFileChange from the result of      *)
(* analyzeLotteryData on, the date inputs, handleFilterApply)              *)
(***************************************************************************)
\* the draws of the histories
FilterDraws == {<<1, 2>>, <<1, 3>>, <<3, 4>>}

\* the histories of 1..MaxDraws draws, newest first: the draw at position i
\* carries contest number and day Len - i + 1
FilterHistories ==
    UNION {{[i \in 1..n |-> [contest |-> Num(n - i + 1), draw |-> ds[i], date |-> DateOfDay(n - i + 1)]] :
               ds \in [1..n -> FilterDraws]} : n \in 1..MaxDraws}

\* the UTC offsets of the environments, west and east of Greenwich
TimeZones == {HomeZone, 1}

\* the values typed into a date input: '' and the days around the history
DateInputs == {EmptyString} \cup {IsoDate(n) : n \in 0..(MaxDraws + 1)}

InitFilter ==
    /\ config = PipelineConfig
    /\ allDraws \in FilterHistories
    /\ frequencies = <<>>
    /\ analysisResult = NoResult
    /\ suggestions = NoSuggestions
    /\ files = <<>>
    /\ error = NoError
    /\ originalResult = NoResult
    /\ startDate = EmptyString
    /\ endDate = EmptyString
    /\ timeZone \in TimeZones
    /\ moduleScope = EmptyScope
    /\ selectedHot = <<>>
    /\ selectedCold = <<>>
    /\ selectedSuggestion = NoSelection
    /\ selectedSuggestionType = NoType
    /\ geminiAnalysis = NoSummary
    /\ geminiRequest = NoRequest
    /\ pc = "input"

\* handleFileChange once analyzeLotteryData has consolidated the history
ShowConsolidated ==
    /\ pc = "input"
    /\ \E r \in ProcessDraws(allDraws, config) :
          /\ originalResult' = ResultOf(<<FileNames[1]>>, allDraws, r)
          /\ analysisResult' = ResultOf(<<FileNames[1]>>, allDraws, r)
          /\ suggestions' = r.suggestions
          /\ frequencies' = r.frequencies
    /\ startDate' = ToISODate(allDraws[Len(allDraws)].date, timeZone)
    /\ endDate' = ToISODate(allDraws[1].date, timeZone)
    /\ pc' = "done"
    /\ UNCHANGED <<config, allDraws, files, error, timeZone, moduleScope>>
    /\ UNCHANGED <<selectionVars, selectedVars, geminiVars>>

\* onChange of the start-date input, shown with the result before and after a
\* range was applied
SetStartDate(value) ==
    /\ pc \in {"done", "filtered"}
    /\ analysisResult # NoResult
    /\ startDate' = value
    /\ UNCHANGED <<config, allDraws, frequencies, analysisResult, suggestions, files, error,
                   originalResult, endDate, timeZone, moduleScope, pc>>
    /\ UNCHANGED <<selectionVars, selectedVars, geminiVars>>

\* onChange of the end-date input, shown with the result before and after a
\* range was applied
SetEndDate(value) ==
    /\ pc \in {"done", "filtered"}
    /\ analysisResult # NoResult
    /\ endDate' = value
    /\ UNCHANGED <<config, allDraws, frequencies, analysisResult, suggestions, files, error,
                   originalResult, startDate, timeZone, moduleScope, pc>>
    /\ UNCHANGED <<selectionVars, selectedVars, geminiVars>>

\* draw.date >= start && draw.date <= end, start the first and end the last
\* second of the days of the two inputs, in local time
DrawInRange(draw, from, to) == draw.date.day >= from.day /\ draw.date.day <= to.day

\* originalResult.allDraws.filter(...)
FilteredDraws(result, from, to) == Filter(result.allDraws, LAMBDA d : DrawInRange(d, from, to))

\* the error shown when no draw lies in the range
EmptyRangeError == [k |-> "error", kind |-> "emptyRange"]

\* { ...originalResult, totalDraws: 0, frequencies: [], lastDraws: [] }
ClearedView(result) ==
    [result EXCEPT !.totalDraws = 0, !.frequencies = <<>>, !.lastDraws = <<>>]

\* handleFilterApply once the range holds no draw
ApplyEmptyRange ==
    /\ error' = EmptyRangeError
    /\ analysisResult' = ClearedView(originalResult)
    /\ frequencies' = <<>>
    /\ allDraws' = <<>>
    /\ UNCHANGED suggestions

\* handleFilterApply once the range holds the draws filteredDraws
ApplyRange(filteredDraws) ==
    /\ error' = NoError
    /\ allDraws' = filteredDraws
    /\ \E r \in ProcessDraws(filteredDraws, config) :
          /\ analysisResult' = ResultOf(originalResult.fileNames, originalResult.allDraws, r)
          /\ suggestions' = r.suggestions
          /\ frequencies' = r.frequencies

\* handleFilterApply, from the button Aplicar shown with the result before and
\* after a range was applied
HandleFilterApply ==
    /\ pc \in {"done", "filtered"}
    /\ analysisResult # NoResult
    /\ IF originalResult = NoResult \/ startDate = EmptyString \/ endDate = EmptyString
       THEN UNCHANGED vars
       ELSE /\ IF Len(FilteredDraws(originalResult, startDate, endDate)) = 0
               THEN ApplyEmptyRange
               ELSE ApplyRange(FilteredDraws(originalResult, startDate, endDate))
            /\ pc' = "filtered"
            /\ UNCHANGED <<config, files, originalResult, startDate, endDate, timeZone,
                           moduleScope>>
            /\ UNCHANGED <<selectionVars, selectedVars, geminiVars>>

NextFilter ==
    \/ ShowConsolidated
    \/ \E value \in DateInputs : SetStartDate(value)
    \/ \E value \in DateInputs : SetEndDate(value)
    \/ HandleFilterApply

SpecFilter == InitFilter /\ [][NextFilter]_vars

(***************************************************************************)
(* The cards of the suggestions and the button of new suggestions          *)
(* (handleSelectSuggestion, the button Limpar, handleRegenerateSuggestions)*)
(***************************************************************************)
\* suggestions[type]
GameOf(shown, type) ==
    CASE type = "hot" -> shown.hot
      [] type = "cold" -> shown.cold
      [] type = "mixed" -> shown.mixed

\* handleSelectSuggestion(type), from the card of a suggestion
HandleSelectSuggestion(type) ==
    /\ pc \in {"done", "filtered"}
    /\ analysisResult # NoResult
    /\ IF suggestions = NoSuggestions
       THEN UNCHANGED vars
       ELSE /\ selectedSuggestion' = (IF type \in {"hot", "cold", "mixed"}
                                      THEN GameOf(suggestions, type)
                                      ELSE selectedSuggestion)
            /\ selectedSuggestionType' = type
            /\ UNCHANGED <<config, allDraws, frequencies, analysisResult, suggestions, files,
                           error, originalResult, startDate, endDate, timeZone, moduleScope, pc>>
            /\ UNCHANGED <<selectionVars, geminiVars>>

\* the button Limpar of the selected game:
\* setSelectedSuggestion(null); setSelectedSuggestionType(null)
ClearSelectedSuggestion ==
    /\ pc \in {"done", "filtered"}
    /\ analysisResult # NoResult
    /\ selectedSuggestion # NoSelection
    /\ selectedSuggestion' = NoSelection
    /\ selectedSuggestionType' = NoType
    /\ UNCHANGED <<config, allDraws, frequencies, analysisResult, suggestions, files, error,
                   originalResult, startDate, endDate, timeZone, moduleScope, pc>>
    /\ UNCHANGED <<selectionVars, geminiVars>>

\* the cards of the suggestions
SuggestionCards == {"hot", "cold", "mixed"}

\* handleRegenerateSuggestions: the invocation is given the array of the
\* displayed result and the config of the component
HandleRegenerateSuggestions ==
    /\ pc \in {"done", "filtered"}
    /\ IF analysisResult = NoResult
       THEN UNCHANGED vars
       ELSE /\ \E call \in Invocations(analysisResult.frequencies, config, moduleScope) :
                  /\ suggestions' = call.returned
                  /\ analysisResult' =
                         [analysisResult EXCEPT !.frequencies = call.left.frequencies]
                  /\ frequencies' = call.left.frequencies
                  /\ config' = call.left.config
                  /\ moduleScope' = call.left.module
            /\ UNCHANGED <<allDraws, files, error, originalResult, startDate, endDate,
                           timeZone, pc>>
            /\ UNCHANGED <<selectionVars, geminiVars>>
            /\ selectedSuggestion' = NoSelection
            /\ selectedSuggestionType' = NoType

(***************************************************************************)
(* SpecCustom: a consolidated history is shown, numbers are clicked in the *)
(* hot and cold lists and a custom game is generated                       *)
(* (handleCustomNumberSelect, handleGenerateCustomGame)                    *)
(***************************************************************************)
MaxCustomDraws == 2

\* the profiles: five numbers, a bet of four or five, hot and cold lists of
\* two (disjoint) or three (one number in both) entries
CustomProfiles ==
    {[totalNumbers |-> 5, drawSize |-> 2, betSize |-> b, hotCount |-> c, coldCount |-> c] :
        b \in {4, 5}, c \in {2, 3}}

\* the draws of the histories
CustomDraws == {<<1, 2>>, <<1, 3>>, <<4, 5>>}

\* the histories of 1..MaxCustomDraws draws, newest first
CustomHistories ==
    UNION {{[i \in 1..n |-> [contest |-> Num(n - i + 1), draw |-> ds[i], date |-> DateOfDay(n - i + 1)]] :
               ds \in [1..n -> CustomDraws]} : n \in 1..MaxCustomDraws}

InitCustom ==
    /\ config \in CustomProfiles
    /\ allDraws \in CustomHistories
    /\ frequencies = <<>>
    /\ analysisResult = NoResult
    /\ suggestions = NoSuggestions
    /\ files = <<>>
    /\ error = NoError
    /\ originalResult = NoResult
    /\ startDate = EmptyString
    /\ endDate = EmptyString
    /\ timeZone = HomeZone
    /\ moduleScope = EmptyScope
    /\ selectedHot = <<>>
    /\ selectedCold = <<>>
    /\ selectedSuggestion = NoSelection
    /\ selectedSuggestionType = NoType
    /\ geminiAnalysis = NoSummary
    /\ geminiRequest = NoRequest
    /\ pc = "input"

\* renderAnalysis: the numbers of the hot buttons
ShownHotNumbers(table, cfg) ==
    LET shown == Slice(table, 0, cfg.hotCount)
    IN [i \in 1..Len(shown) |-> shown[i].number]

\* renderAnalysis and handleGenerateCustomGame: the numbers of the cold
\* buttons (as a set the reversal of the rendering does not matter)
ShownColdNumbers(table, cfg) ==
    LET shown == SliceFrom(table, 0 - cfg.coldCount)
    IN [i \in 1..Len(shown) |-> shown[i].number]

\* mutant of SelectNumber: the newest entry is evicted instead of the oldest
SelectNumberEvictNewest(prev, number) ==
    IF number \in Range(prev)
    THEN Filter(prev, LAMBDA n : n # number)
    ELSE LET newSelection == Append(prev, number)
         IN IF Len(newSelection) > 2
            THEN <<newSelection[1], newSelection[Len(newSelection)]>>
            ELSE newSelection

\* the updater of handleCustomNumberSelect: prev => next
SelectNumber(prev, number) ==
    IF number \in Range(prev)
    THEN Filter(prev, LAMBDA n : n # number)
    ELSE LET newSelection == Append(prev, number)
         IN IF Len(newSelection) > 2 THEN Tail(newSelection) ELSE newSelection

\* handleCustomNumberSelect(number, type), from a button of the hot or of the
\* cold list
HandleCustomNumberSelect(number, type) ==
    /\ pc \in {"done", "filtered"}
    /\ analysisResult # NoResult
    /\ IF type = "hot"
       THEN /\ number \in Range(ShownHotNumbers(analysisResult.frequencies, config))
            /\ selectedHot' = SelectNumber(selectedHot, number)
            /\ UNCHANGED selectedCold
       ELSE /\ number \in Range(ShownColdNumbers(analysisResult.frequencies, config))
            /\ selectedCold' = SelectNumber(selectedCold, number)
            /\ UNCHANGED selectedHot
    /\ UNCHANGED <<config, allDraws, frequencies, analysisResult, suggestions, files, error,
                   originalResult, startDate, endDate, timeZone, moduleScope, pc>>
    /\ UNCHANGED <<selectedVars, geminiVars>>

\* handleGenerateCustomGame: the pool of the filler numbers
NeutralPool(table, cfg, baseNumbers) ==
    LET extremeNumbers == Range(ShownHotNumbers(table, cfg)) \cup Range(ShownColdNumbers(table, cfg))
    IN Filter([i \in 1..cfg.totalNumbers |-> i],
              LAMBDA n : n \notin extremeNumbers /\ n \notin Range(baseNumbers))

\* handleGenerateCustomGame: the games it can set
CustomGames(table, cfg, hot, cold) ==
    LET baseNumbers == hot \o cold
        remainingNumbers == cfg.betSize - Len(baseNumbers)
    IN {SortAsc(baseNumbers \o fillerNumbers) :
           fillerNumbers \in PickRandomNumbers(NeutralPool(table, cfg, baseNumbers), remainingNumbers)}

\* handleGenerateCustomGame
HandleGenerateCustomGame ==
    /\ pc \in {"done", "filtered"}
    /\ IF analysisResult = NoResult \/ Len(selectedHot) # 2 \/ Len(selectedCold) # 2
       THEN UNCHANGED vars
       ELSE /\ selectedSuggestion' \in
                  CustomGames(analysisResult.frequencies, config, selectedHot, selectedCold)
            /\ selectedSuggestionType' = "custom"
            /\ UNCHANGED <<config, allDraws, frequencies, analysisResult, suggestions, files,
                           error, originalResult, startDate, endDate, timeZone, moduleScope, pc>>
            /\ UNCHANGED <<selectionVars, geminiVars>>

NextCustom ==
    \/ ShowConsolidated
    \/ \E number \in 1..5, type \in {"hot", "cold"} : HandleCustomNumberSelect(number, type)
    \/ HandleGenerateCustomGame
    \/ \E type \in SuggestionCards : HandleSelectSuggestion(type)
    \/ ClearSelectedSuggestion

SpecCustom == InitCustom /\ [][NextCustom]_vars

(***************************************************************************)
(* SpecGemini: a consolidated history is shown and the AI summary is asked *)
(* for while the date range is applied or cleared, suggestions are asked   *)
(* for again and another history is uploaded (handleGeminiAnalysis,        *)
(* handleFilterApply, handleFilterClear, handleRegenerateSuggestions,      *)
(* handleFileChange)                                                       *)
(***************************************************************************)
MaxGeminiDraws == 2

\* the draws of the histories
GeminiDraws == {<<1, 2>>, <<3, 4>>}

\* the histories of 1..MaxGeminiDraws draws, newest first
GeminiHistories ==
    UNION {{[i \in 1..n |-> [contest |-> Num(n - i + 1), draw |-> ds[i], date |-> DateOfDay(n - i + 1)]] :
               ds \in [1..n -> GeminiDraws]} : n \in 1..MaxGeminiDraws}

\* the values typed into the end-date input
GeminiDateInputs == {IsoDate(n) : n \in 1..(MaxGeminiDraws - 1)}

InitGemini ==
    /\ config = PipelineConfig
    /\ allDraws \in GeminiHistories
    /\ frequencies = <<>>
    /\ analysisResult = NoResult
    /\ suggestions = NoSuggestions
    /\ files = <<>>
    /\ error = NoError
    /\ originalResult = NoResult
    /\ startDate = EmptyString
    /\ endDate = EmptyString
    /\ timeZone = HomeZone
    /\ moduleScope = EmptyScope
    /\ selectedHot = <<>>
    /\ selectedCold = <<>>
    /\ selectedSuggestion = NoSelection
    /\ selectedSuggestionType = NoType
    /\ geminiAnalysis = NoSummary
    /\ geminiRequest = NoRequest
    /\ pc = "input"

\* handleFileChange up to the await: another selection of files is read
\* from the button of the error panel while the page stays open
StartUpload ==
    /\ pc \in {"done", "filtered"}
    /\ error # NoError
    /\ allDraws' \in GeminiHistories
    /\ error' = NoError
    /\ analysisResult' = NoResult
    /\ pc' = "input"
    /\ UNCHANGED <<config, frequencies, suggestions, files, originalResult, startDate,
                   endDate, timeZone, moduleScope>>
    /\ UNCHANGED <<selectionVars, selectedVars, geminiVars>>

\* handleFilterClear, from the button Limpar shown with the result
HandleFilterClear ==
    /\ pc \in {"done", "filtered"}
    /\ analysisResult # NoResult
    /\ IF originalResult = NoResult
       THEN UNCHANGED vars
       ELSE /\ analysisResult' = originalResult
            /\ suggestions' = originalResult.suggestions
            /\ frequencies' = originalResult.frequencies
            /\ allDraws' = originalResult.allDraws
            /\ error' = NoError
            /\ IF Len(originalResult.allDraws) > 0
               THEN /\ startDate' = ToISODate(originalResult.allDraws[Len(originalResult.allDraws)].date,
                                              timeZone)
                    /\ endDate' = ToISODate(originalResult.allDraws[1].date, timeZone)
               ELSE UNCHANGED <<startDate, endDate>>
            /\ pc' = "done"
            /\ UNCHANGED <<config, files, originalResult, timeZone, moduleScope>>
            /\ UNCHANGED <<selectionVars, selectedVars, geminiVars>>

\* the error shown when the request fails
GeminiError == [k |-> "error", kind |-> "gemini"]

\* the data of the prompt: the number of draws, the five most and the five
\* least frequent numbers, the three top pairs, the first parity entry and
\* the three suggestions
Prompt(result, shown) ==
    [totalDraws |-> result.totalDraws,
     mostFrequent |-> Slice(result.frequencies, 0, 5),
     leastFrequent |-> Reversed(SliceFrom(result.frequencies, 0 - 5)),
     topPairs |-> Slice(result.topPairs, 0, 3),
     parity |-> Slice(result.evenOddDistribution, 0, 1),
     hot |-> shown.hot,
     cold |-> shown.cold,
     mixed |-> shown.mixed]

\* handleGeminiAnalysis up to the await; the button is disabled while a
\* request is pending
HandleGeminiAnalysis ==
    /\ pc \in {"done", "filtered"}
    /\ geminiRequest = NoRequest
    /\ IF analysisResult = NoResult \/ suggestions = NoSuggestions
       THEN UNCHANGED vars
       ELSE /\ geminiRequest' = [k |-> "pending", prompt |-> Prompt(analysisResult, suggestions)]
            /\ geminiAnalysis' = NoSummary
            /\ error' = NoError
            /\ UNCHANGED <<config, allDraws, frequencies, analysisResult, suggestions, files,
                           originalResult, startDate, endDate, timeZone, moduleScope, pc>>
            /\ UNCHANGED <<selectionVars, selectedVars>>

\* handleGeminiAnalysis after the await: the response is the summary of the
\* prompt that was sent
GeminiResponds ==
    /\ geminiRequest # NoRequest
    /\ geminiAnalysis' = [k |-> "summary", prompt |-> geminiRequest.prompt]
    /\ geminiRequest' = NoRequest
    /\ UNCHANGED <<config, allDraws, frequencies, analysisResult, suggestions, files, error,
                   originalResult, startDate, endDate, timeZone, moduleScope, pc>>
    /\ UNCHANGED <<selectionVars, selectedVars>>

\* handleGeminiAnalysis after the await: the request fails
GeminiFails ==
    /\ geminiRequest # NoRequest
    /\ error' = GeminiError
    /\ geminiRequest' = NoRequest
    /\ UNCHANGED <<config, allDraws, frequencies, analysisResult, suggestions, files,
                   originalResult, startDate, endDate, timeZone, moduleScope, pc>>
    /\ UNCHANGED <<selectionVars, selectedVars, geminiAnalysis>>

NextGemini ==
    \/ ShowConsolidated
    \/ StartUpload
    \/ \E value \in GeminiDateInputs : SetEndDate(value)
    \/ HandleFilterApply
    \/ HandleFilterClear
    \/ HandleRegenerateSuggestions
    \/ HandleGeminiAnalysis
    \/ GeminiResponds
    \/ GeminiFails
    \/ \E type \in SuggestionCards : HandleSelectSuggestion(type)
    \/ ClearSelectedSuggestion

SpecGemini == InitGemini /\ [][NextGemini]_vars

(***************************************************************************)
(* SpecSuggest: regenerateSuggestions applied to a frequency table         *)
(* covering 1..totalNumbers (handleRegenerateSuggestions re-invokes it on  *)
(* the same table)                                                         *)
(***************************************************************************)
SuggestProfiles ==
    {[totalNumbers |-> TotalNumbers, drawSize |-> DrawSize, betSize |-> b,
      hotCount |-> h, coldCount |-> c] :
        b \in 1..MaxBet, h \in 1..TotalNumbers, c \in 1..TotalNumbers}

\* the tables processDraws builds: one entry per number, by count descending
\* then number ascending
FrequencyTables ==
    {Frequencies([i \in 1..TotalNumbers |-> [key |-> i, val |-> counts[i]]]) :
        counts \in [1..TotalNumbers -> 0..MaxCount]}

InitSuggest ==
    /\ config \in SuggestProfiles
    /\ frequencies \in FrequencyTables
    /\ allDraws = <<>>
    /\ analysisResult = NoResult
    /\ suggestions = NoSuggestions
    /\ files = <<>>
    /\ error = NoError
    /\ originalResult = NoResult
    /\ startDate = EmptyString
    /\ endDate = EmptyString
    /\ timeZone = HomeZone
    /\ moduleScope = EmptyScope
    /\ selectedHot = <<>>
    /\ selectedCold = <<>>
    /\ selectedSuggestion = NoSelection
    /\ selectedSuggestionType = NoType
    /\ geminiAnalysis = NoSummary
    /\ geminiRequest = NoRequest
    /\ pc = "input"

CallRegenerateSuggestions ==
    /\ pc = "input"
    /\ suggestions' \in RegenerateSuggestions(frequencies, config)
    /\ pc' = "done"
    /\ UNCHANGED <<config, allDraws, frequencies, analysisResult, files, error,
                   originalResult, startDate, endDate, timeZone, moduleScope>>
    /\ UNCHANGED <<selectionVars, geminiVars>>
    /\ UNCHANGED selectedVars

NextSuggest == CallRegenerateSuggestions

SpecSuggest == InitSuggest /\ [][NextSuggest]_vars

(***************************************************************************)
(* SpecRegenerate: a caller holds a frequency table, in the order of       *)
(* processDraws or in another one, and invokes regenerateSuggestions on it *)
(* again and again                                                         *)
(***************************************************************************)
\* the profiles: the bet of the pipeline profile and one of MaxBet numbers,
\* larger than the pools
RegenerateProfiles == {PipelineConfig, [PipelineConfig EXCEPT !.betSize = MaxBet]}

\* a table by number ascending
ByNumber(table) == StableSort(table, LAMBDA a, b : a.number - b.number)

\* the tables: those of processDraws, the same reversed (least frequent
\* first) and the same by number
RegenerateTables == UNION {{table, Reversed(table), ByNumber(table)} : table \in FrequencyTables}

InitRegenerate ==
    /\ config \in RegenerateProfiles
    /\ frequencies \in RegenerateTables
    /\ allDraws = <<>>
    /\ analysisResult = NoResult
    /\ suggestions = NoSuggestions
    /\ files = <<>>
    /\ error = NoError
    /\ originalResult = NoResult
    /\ startDate = EmptyString
    /\ endDate = EmptyString
    /\ timeZone = HomeZone
    /\ moduleScope = EmptyScope
    /\ selectedHot = <<>>
    /\ selectedCold = <<>>
    /\ selectedSuggestion = NoSelection
    /\ selectedSuggestionType = NoType
    /\ geminiAnalysis = NoSummary
    /\ geminiRequest = NoRequest
    /\ pc = "input"

\* the caller invokes regenerateSuggestions on the table it holds, for the
\* first time (pc "done") or once more (pc "again"), and keeps what is
\* returned
InvokeRegenerateSuggestions ==
    /\ \E call \in Invocations(frequencies, config, moduleScope) :
          /\ suggestions' = call.returned
          /\ frequencies' = call.left.frequencies
          /\ config' = call.left.config
          /\ moduleScope' = call.left.module
    /\ pc' = (IF pc = "input" THEN "done" ELSE "again")
    /\ UNCHANGED <<allDraws, analysisResult, files, error, originalResult, startDate, endDate,
                   timeZone>>
    /\ UNCHANGED <<selectionVars, selectedVars, geminiVars>>

NextRegenerate == InvokeRegenerateSuggestions

SpecRegenerate == InitRegenerate /\ [][NextRegenerate]_vars

(***************************************************************************)
(* Claims about processDraws (SpecStats)                                   *)
(***************************************************************************)
\* the draws of allDraws that contain the number n
DrawsWith(n) == {i \in 1..Len(allDraws) : n \in Range(allDraws[i].draw)}

StrictlyAscending(s) == \A i \in 1..(Len(s) - 1) : s[i] < s[i + 1]

\* C1: the counts of the frequency table returned by processDraws add up to
\* totalDraws * drawSize.
C1_FrequencySum ==
    pc = "done" =>
        SumSeq([i \in 1..Len(analysisResult.frequencies) |-> analysisResult.frequencies[i].count])
            = analysisResult.totalDraws * config.drawSize

C1_Witness ==
    /\ pc = "done"
    /\ analysisResult.totalDraws = MaxDraws
    /\ \E n \in 1..config.totalNumbers : Cardinality(DrawsWith(n)) >= 2

\* C2: the frequency table has exactly totalNumbers entries, one for each
\* integer of 1..totalNumbers and none for any other value, and the entry of a
\* number that was never drawn has count 0.
C2_FrequencyCoversRange ==
    pc = "done" =>
        LET f == analysisResult.frequencies
        IN /\ Len(f) = config.totalNumbers
           /\ \A n \in 1..config.totalNumbers :
                 /\ Cardinality({i \in 1..Len(f) : f[i].number = n}) = 1
                 /\ DrawsWith(n) = {} => \A i \in 1..Len(f) : f[i].number = n => f[i].count = 0
           /\ \A i \in 1..Len(f) : f[i].number \in 1..config.totalNumbers

C2_Witness ==
    /\ pc = "done"
    /\ \E n \in 1..config.totalNumbers : DrawsWith(n) = {}
    /\ \E n \in 1..config.totalNumbers : DrawsWith(n) # {}

\* the interval statistics entry of the number n
StatsOf(n) ==
    analysisResult.intervalStats[
        CHOOSE i \in 1..Len(analysisResult.intervalStats) :
            analysisResult.intervalStats[i].number = n]

OccursInEveryDraw(n) == DrawsWith(n) = 1..Len(allDraws)

\* C9 as stated: for a history of any length, a single draw included, a
\* number that occurs in every draw has currentDelay 0 and averageInterval 1.
C9_Original ==
    pc = "done" =>
        \A n \in 1..config.totalNumbers :
            OccursInEveryDraw(n) =>
                StatsOf(n).currentDelay = 0 /\ StatsOf(n).avgInterval = 100

\* C9 amended: for a history of two draws or more, a number that occurs in
\* every draw has currentDelay 0 and averageInterval 1; for a history of a
\* single draw it has currentDelay 0 and averageInterval 0.
C9_EveryDrawNumber ==
    pc = "done" =>
        \A n \in 1..config.totalNumbers :
            OccursInEveryDraw(n) =>
                /\ StatsOf(n).currentDelay = 0
                /\ StatsOf(n).avgInterval = (IF Len(allDraws) >= 2 THEN 100 ELSE 0)

C9_Witness ==
    /\ pc = "done"
    /\ Len(allDraws) = MaxDraws
    /\ \E n \in 1..config.totalNumbers : OccursInEveryDraw(n)

\* C10: with the history stored newest first, currentDelay(n) is the number
\* of draws more recent than the most recent occurrence of n, and the
\* history length when n never occurs.
C10_CurrentDelay ==
    pc = "done" =>
        \A n \in 1..config.totalNumbers :
            StatsOf(n).currentDelay =
                (IF DrawsWith(n) = {} THEN Len(allDraws)
                 ELSE (CHOOSE i \in DrawsWith(n) : \A j \in DrawsWith(n) : i <= j) - 1)

(***************************************************************************)
(* Claims about regenerateSuggestions (SpecSuggest)                        *)
(***************************************************************************)
CountOf(n) == frequencies[CHOOSE i \in 1..Len(frequencies) : frequencies[i].number = n].count

\* n is one of the k most frequent numbers under some breaking of ties
AmongMostFrequent(n, k) ==
    Cardinality({i \in 1..Len(frequencies) : frequencies[i].count > CountOf(n)}) < k

\* n is one of the k least frequent numbers under some breaking of ties
AmongLeastFrequent(n, k) ==
    Cardinality({i \in 1..Len(frequencies) : frequencies[i].count < CountOf(n)}) < k

\* C7: the mixed suggestion has exactly betSize numbers, pairwise distinct
\* and ascending, each in 1..totalNumbers, whatever the random choices.
C7_MixedSuggestion ==
    pc = "done" =>
        /\ Len(suggestions.mixed) = config.betSize
        /\ StrictlyAscending(suggestions.mixed)
        /\ Range(suggestions.mixed) \subseteq 1..config.totalNumbers

\* the hot pool is shorter than the hot half of the bet and it meets the cold pool
C7_Witness ==
    /\ pc = "done"
    /\ config.hotCount < HotHalf(config)
    /\ config.hotCount + config.coldCount > config.totalNumbers
    /\ Len(suggestions.mixed) = config.betSize

\* C8 as stated: hot and cold each are a strictly increasing list of exactly
\* betSize numbers, taken from the hotCount most frequent, respectively the
\* coldCount least frequent numbers.
C8_Original ==
    pc = "done" =>
        /\ Len(suggestions.hot) = config.betSize
        /\ StrictlyAscending(suggestions.hot)
        /\ \A n \in Range(suggestions.hot) : AmongMostFrequent(n, config.hotCount)
        /\ Len(suggestions.cold) = config.betSize
        /\ StrictlyAscending(suggestions.cold)
        /\ \A n \in Range(suggestions.cold) : AmongLeastFrequent(n, config.coldCount)

\* C8 amended: hot is a strictly increasing list of exactly
\* min(betSize, hotCount, totalNumbers) numbers taken from the hotCount most
\* frequent numbers, cold one of exactly min(betSize, coldCount, totalNumbers)
\* numbers taken from the coldCount least frequent numbers.
C8_HotColdSuggestion ==
    pc = "done" =>
        /\ Len(suggestions.hot) = Min(config.betSize, Min(config.hotCount, config.totalNumbers))
        /\ StrictlyAscending(suggestions.hot)
        /\ \A n \in Range(suggestions.hot) : AmongMostFrequent(n, config.hotCount)
        /\ Len(suggestions.cold) = Min(config.betSize, Min(config.coldCount, config.totalNumbers))
        /\ StrictlyAscending(suggestions.cold)
        /\ \A n \in Range(suggestions.cold) : AmongLeastFrequent(n, config.coldCount)

C8_Witness ==
    /\ pc = "done"
    /\ config.hotCount < config.betSize
    /\ config.coldCount > config.betSize
    /\ Len(suggestions.hot) = config.hotCount
    /\ Len(suggestions.cold) = config.betSize

(***************************************************************************)
(* Claims about parseRawDataToDraws and analyzeLotteryData (Spec)          *)
(***************************************************************************)
\* the header located in a file's grid
HeaderOf(file) == LocateHeader(ReadFileData(file), config)

\* the data rows of a file: the rows after its header
DataRowsOf(file) == SliceFrom(ReadFileData(file), HeaderOf(file).headerRowIndex + 1)

\* the draws parsed from the files of the batch, in input order
RECURSIVE Candidates(_, _)
Candidates(fs, i) ==
    IF i > Len(fs) THEN <<>>
    ELSE ReadAndParse(fs[i], config).draws \o Candidates(fs, i + 1)

\* C3: every Draw of the DrawHistory returned by analyzeLotteryData has
\* exactly drawSize numbers, pairwise distinct and ascending, each within
\* [1, totalNumbers], a non-empty contest identifier and a valid date,
\* whatever the cells of the grids and whichever header strategy matched.
C3_DrawsWellFormed ==
    (pc = "done" /\ error = NoError) =>
        /\ analysisResult.allDraws = allDraws
        /\ \A i \in 1..Len(allDraws) :
              LET d == allDraws[i]
              IN /\ Len(d.draw) = config.drawSize
                 /\ StrictlyAscending(d.draw)
                 /\ \A j \in 1..Len(d.draw) : d.draw[j] \in 1..config.totalNumbers
                 /\ d.contest # Text("")
                 /\ d.contest # Undefined
                 /\ d.date.k = "Date"
                 /\ NewDate(GetFullYear(d.date), GetMonth(d.date), GetDate(d.date)) = d.date

\* a file with a number-slot header and a file with a plain header each
\* contribute a draw, one of them from a row with an out-of-range cell
C3_Witness ==
    /\ pc = "done"
    /\ error = NoError
    /\ Len(files) = 2
    /\ HeaderOf(files[1]).strict
    /\ ~HeaderOf(files[2]).strict
    /\ Len(allDraws) = 2
    /\ \E i \in 1..2 : \E r \in 1..Len(DataRowsOf(files[i])) :
          \E c \in 1..Len(DataRowsOf(files[i])[r]) :
             LET n == NumberOf(DataRowsOf(files[i])[r][c])
             IN ~n.nan /\ Tenths(n.v) > 10 * config.totalNumbers

\* the cells of a data row under the number-slot columns of the header: all
\* the labelled columns under a number-slot header, else the whole row
SlotCells(file, row) ==
    LET header == HeaderOf(file)
        labelled == DrawIndicesOf(ReadFileData(file)[header.headerRowIndex + 1])
    IN IF header.strict
       THEN [j \in 1..Len(labelled) |-> CellAt(row, labelled[j])]
       ELSE row

\* C4: a data row holding more than drawSize distinct in-range numbers in
\* its number cells produces no Draw, whichever header strategy matched,
\* also under a header with more than drawSize number-slot columns.
C4_OverfullRowDropped ==
    pc = "done" =>
        \A i \in 1..Len(files) :
            HeaderOf(files[i]).headerRowIndex # -1 =>
                \A r \in 1..Len(DataRowsOf(files[i])) :
                    LET row == DataRowsOf(files[i])[r]
                    IN Cardinality(Range(NumbersInRange(SlotCells(files[i], row), config)))
                           > config.drawSize
                       => ~IsValidDraw(ExtractRow(row, HeaderOf(files[i]), config), config)

\* the positions of the parsed draws carrying the contest identifier c
PositionsOf(cands, c) == {i \in 1..Len(cands) : cands[i].contest = c}

\* C5: when several files, or several rows of a file, hold a draw with the
\* same contest identifier, the DrawHistory has exactly one draw for that
\* identifier: the one latest in input order.
C5_LastWriteWins ==
    (pc = "done" /\ error = NoError) =>
        LET cands == Candidates(files, 1)
        IN \A k \in 1..Len(cands) :
              LET c == cands[k].contest
                  last == cands[CHOOSE p \in PositionsOf(cands, c) :
                                   \A q \in PositionsOf(cands, c) : q <= p]
              IN /\ Cardinality({i \in 1..Len(allDraws) : allDraws[i].contest = c}) = 1
                 /\ \A i \in 1..Len(allDraws) : allDraws[i].contest = c => allDraws[i] = last

\* two files hold a draw for the same contest, with other numbers and
\* another date
C5_Witness ==
    /\ pc = "done"
    /\ error = NoError
    /\ Len(files) = 2
    /\ LET first == ParseRawDataToDraws(ReadFileData(files[1]), config).draws
           second == ParseRawDataToDraws(ReadFileData(files[2]), config).draws
       IN /\ Len(first) = 1
          /\ Len(second) = 1
          /\ first[1].contest = second[1].contest
          /\ first[1].draw # second[1].draw
          /\ first[1].date # second[1].date
          /\ allDraws = second

\* C6: consolidation is idempotent: the batch [f, f] yields the DrawHistory
\* of the batch [f], the same draws in the same order.
C6_Idempotent ==
    (pc = "done" /\ Len(files) = 2 /\ ReadFileData(files[1]) = ReadFileData(files[2])) =>
        LET once == Consolidate(<<files[1]>>, config)
        IN /\ allDraws = once.draws
           /\ (error = NoError) <=> (once.error = NoError)

\* the same grid twice, holding the draws of two contests
C6_Witness ==
    /\ pc = "done"
    /\ error = NoError
    /\ Len(files) = 2
    /\ ReadFileData(files[1]) = ReadFileData(files[2])
    /\ Len(ParseRawDataToDraws(ReadFileData(files[1]), config).draws) = 2
    /\ Len(allDraws) = 2

(***************************************************************************)
(* Claims about the repeated combinations (SpecStats)                      *)
(***************************************************************************)
\* the contest identifiers of the draws of the history with the numbers c
ContestsOf(c) == {allDraws[i].contest : i \in {j \in 1..Len(allDraws) : allDraws[j].draw = c}}

\* C11: repeatedDraws has exactly one group for each combination occurring
\* under more than one contest identifier, the group lists all and only the
\* contest identifiers of that combination, no group exists for a
\* combination occurring once, and the count of a number is the number of
\* draws holding it.
C11_RepeatedDraws ==
    pc = "done" =>
        LET groups == analysisResult.repeatedDraws
        IN /\ \A i \in 1..Len(allDraws) :
                 Cardinality(ContestsOf(allDraws[i].draw)) > 1 =>
                     Cardinality({g \in 1..Len(groups) : groups[g].draw = allDraws[i].draw}) = 1
           /\ \A g \in 1..Len(groups) :
                 /\ Cardinality(ContestsOf(groups[g].draw)) > 1
                 /\ Range(groups[g].contests) = ContestsOf(groups[g].draw)
                 /\ Len(groups[g].contests) = Cardinality(ContestsOf(groups[g].draw))
           /\ \A n \in 1..config.totalNumbers : CountOf(n) = Cardinality(DrawsWith(n))

\* three draws, two of them with the same numbers: one group of two contests
C11_Witness ==
    /\ pc = "done"
    /\ Len(allDraws) = 3
    /\ allDraws[1].draw = allDraws[3].draw
    /\ allDraws[2].draw # allDraws[1].draw
    /\ Len(analysisResult.repeatedDraws) = 1
    /\ Range(analysisResult.repeatedDraws[1].contests) = {allDraws[1].contest, allDraws[3].contest}

(***************************************************************************)
(* Claims about errors, dates and order of the consolidation (Spec)        *)
(***************************************************************************)
\* file i of the batch fails at file level: it cannot be read or no header
\* is found in it
FailsAtFileLevel(i) == ReadAndParse(files[i], config).failed

\* the contest identifiers of the draws of the history
HistoryContests == {allDraws[i].contest : i \in 1..Len(allDraws)}

\* C12: when one file of a batch fails at file level, the other files are
\* still processed and their valid draws consolidated.
C12_FailingFileSkipped ==
    pc = "done" =>
        \A i \in 1..Len(files) :
            ~FailsAtFileLevel(i) =>
                LET draws == ParseRawDataToDraws(ReadFileData(files[i]), config).draws
                IN \A k \in 1..Len(draws) : draws[k].contest \in HistoryContests

\* the calendar: leap years and the lengths of the months
IsLeapYear(y) == (y % 4 = 0 /\ y % 100 # 0) \/ y % 400 = 0

DaysInMonth(y, m) ==
    IF m = 2 THEN (IF IsLeapYear(y) THEN 29 ELSE 28)
    ELSE IF m \in {4, 6, 9, 11} THEN 30 ELSE 31

\* the year a date cell stands for: two digits are 19xx above 50, else 20xx
YearOf(cell) == IF cell.y < 100 THEN (IF cell.y > 50 THEN 1900 + cell.y ELSE 2000 + cell.y) ELSE cell.y

\* the day, month and year of a date cell form a real calendar date
IsCalendarDate(cell) ==
    /\ cell.m \in 1..12
    /\ cell.d \in 1..DaysInMonth(YearOf(cell), cell.m)

\* the date cell of the first data row of the uploaded file
FirstDateCell == ReadFileData(files[1])[2][2]

\* C13: a date cell whose day, month and year form no real calendar date
\* makes parseDate return no date, the row carrying it produces no Draw and
\* the other rows of the file are extracted normally.
C13_ImpossibleDate ==
    (pc = "done" /\ ~IsCalendarDate(FirstDateCell)) =>
        /\ ParseDate(FirstDateCell) = NoDate
        /\ error = NoError
        /\ Len(allDraws) = 1
        /\ allDraws[1].contest = ReadFileData(files[1])[3][1]
        /\ allDraws[1].draw = <<3, 4>>
        /\ allDraws[1].date = NewDate(2023, 1, 28)

\* the file with 31/02/2024 in its first row: only the second row is a draw
C13_Witness ==
    /\ pc = "done"
    /\ FirstDateCell = DateText(31, 2, 2024)
    /\ HistoryContests = {Num(8)}

\* a number without fractional part
IsInteger(n) == n < FracBase

\* C14: every number of every Draw of the DrawHistory is an integer,
\* whatever the cells of the grid (whole numbers, fractional numbers,
\* numeric strings, text, blanks), under both header strategies.
C14_IntegerNumbers ==
    (pc = "done" /\ error = NoError) =>
        \A i \in 1..Len(allDraws) : \A j \in 1..Len(allDraws[i].draw) :
            IsInteger(allDraws[i].draw[j])

\* C15: the DrawHistory returned by analyzeLotteryData is ordered newest to
\* oldest: for positions i < j, date(draw i) >= date(draw j), whatever the
\* order of the files and of the rows inside them.
C15_NewestFirst ==
    (pc = "done" /\ error = NoError) =>
        \A i, j \in 1..Len(allDraws) :
            i < j => GetTime(allDraws[i].date) >= GetTime(allDraws[j].date)

\* the older of two draws comes first in the input and last in the history
C15_Witness ==
    /\ pc = "done"
    /\ error = NoError
    /\ Len(allDraws) = 2
    /\ LET cands == Candidates(files, 1)
       IN /\ Len(cands) = 2
          /\ GetTime(cands[1].date) < GetTime(cands[2].date)
          /\ allDraws = <<cands[2], cands[1]>>

\* a data row passes validation: its contest cell is not empty, its date
\* cell parses and its number cells hold exactly drawSize distinct in-range
\* numbers
RowIsValid(file, row) ==
    /\ CellAt(row, HeaderOf(file).contestIndex) # Text("")
    /\ CellAt(row, HeaderOf(file).contestIndex) # Undefined
    /\ ParseDate(CellAt(row, HeaderOf(file).dateIndex)).k = "Date"
    /\ Cardinality(Range(NumbersInRange(SlotCells(file, row), config))) = config.drawSize

\* the contest identifiers of the valid rows of the batch
ValidRowContests ==
    {CellAt(DataRowsOf(files[i])[r], HeaderOf(files[i]).contestIndex) :
        <<i, r>> \in {<<i, r>> \in (1..Len(files)) \X (1..MaxBatchRows) :
                        /\ r <= Len(DataRowsOf(files[i]))
                        /\ RowIsValid(files[i], DataRowsOf(files[i])[r])}}

\* a header is located in every file of the batch
HeaderInEachFile == \A i \in 1..Len(files) : HeaderOf(files[i]).headerRowIndex # -1

\* C17: a data row that fails validation (unparseable date, wrong number of
\* distinct numbers, out-of-range number, empty contest cell) never makes
\* analyzeLotteryData raise: when a header is located in each file and at
\* least one row of the batch is valid, the call succeeds and the
\* DrawHistory holds draws for exactly the contests of the valid rows.
C17_InvalidRowsSkipped ==
    (pc = "done" /\ HeaderInEachFile /\ ValidRowContests # {}) =>
        /\ error = NoError
        /\ HistoryContests = ValidRowContests

\* C18: analyzeLotteryData signals the no-valid-draws error exactly when
\* every file was read and parsed without a file-level error and the merged
\* set of draws is empty; then no statistics are returned and the error
\* names drawSize and the range 1..totalNumbers.
C18_NoValidDraws ==
    pc = "done" =>
        /\ (error.k = "error" /\ error.kind = "noValidDraws")
               <=> (/\ \A i \in 1..Len(files) : ~FailsAtFileLevel(i)
                    /\ Candidates(files, 1) = <<>>)
        /\ (error.k = "error" /\ error.kind = "noValidDraws") =>
               /\ analysisResult = NoResult
               /\ allDraws = <<>>
               /\ error.drawSize = config.drawSize
               /\ error.totalNumbers = config.totalNumbers

\* two files with a header and one data row each, neither row a draw
C18_Witness ==
    /\ pc = "done"
    /\ error = NoValidDrawsError(config)
    /\ Len(files) = 2
    /\ \A i \in 1..2 : HeaderOf(files[i]).headerRowIndex # -1 /\ Len(DataRowsOf(files[i])) = 1

\* the first file of the batch that fails at file level, 0 when none does
FirstFailingFile ==
    LET failing == {i \in 1..Len(files) : FailsAtFileLevel(i)}
    IN IF failing = {} THEN 0 ELSE CHOOSE i \in failing : \A j \in failing : i <= j

\* C19: an error raised while reading or parsing a file is re-raised as an
\* error naming that file, the one that actually failed and not an earlier
\* or later file of the batch; the batch-level no-valid-draws error carries
\* no file name.
C19_ErrorNamesFailingFile ==
    pc = "done" =>
        /\ FirstFailingFile # 0 => error = FileError(files[FirstFailingFile])
        /\ FirstFailingFile = 0 =>
               (error = NoError \/ (error = NoValidDrawsError(config)
                                       /\ "file" \notin DOMAIN error))

\* the second of three files is the one that fails, the first holds a draw
C19_Witness ==
    /\ pc = "done"
    /\ Len(files) = 3
    /\ FirstFailingFile = 2
    /\ ReadAndParse(files[1], config).draws # <<>>
    /\ error.k = "error"
    /\ error.file = FileNames[2]

(***************************************************************************)
(* Claims about the date filter (SpecFilter)                               *)
(***************************************************************************)
\* C16: after a date range is applied, every statistic of the displayed
\* result (total draws, frequencies, top pairs, parity distribution,
\* interval stats, repeated draws, last draws, suggestions) is the one
\* processDraws computes from exactly the draws of the consolidated history
\* whose date lies in the range, for any range. The steps that apply a range
\* are those that end with a range applied and leave both date inputs, each
\* holding a date, as they were: the first application and every later one.
C16_FilteredStatistics ==
    [][(pc' = "filtered" /\ startDate' = startDate /\ endDate' = endDate
            /\ startDate # EmptyString /\ endDate # EmptyString) =>
          \E r \in ProcessDraws(FilteredDraws(originalResult, startDate, endDate), config) :
              /\ analysisResult'.totalDraws = r.totalDraws
              /\ analysisResult'.frequencies = r.frequencies
              /\ analysisResult'.topPairs = r.topPairs
              /\ analysisResult'.evenOddDistribution = r.evenOddDistribution
              /\ analysisResult'.intervalStats = r.intervalStats
              /\ analysisResult'.repeatedDraws = r.repeatedDraws
              /\ analysisResult'.lastDraws = r.lastDraws
              /\ analysisResult'.suggestions = r.suggestions
              /\ suggestions' = r.suggestions]_vars

(***************************************************************************)
(* Claims about the interval statistics (SpecIntervals)                    *)
(***************************************************************************)
\* the gaps processDraws records for the number n, in the order recorded
RecordedGaps(n) ==
    LET intervals == DrawLoop(EmptyMaps, allDraws, 0).intervals
    IN IF MapHas(intervals, n) THEN MapGet(intervals, n) ELSE <<>>

\* the positions of the draws containing n, counted from the oldest draw
\* (0) to the newest, in ascending order
ChronologicalPositions(n) == SeqOfSet({Len(allDraws) - i : i \in DrawsWith(n)})

\* the gaps between consecutive occurrences of n, oldest to newest
ChronologicalGaps(n) ==
    LET pos == ChronologicalPositions(n)
    IN [k \in 1..(Len(pos) - 1) |-> pos[k + 1] - pos[k]]


Abs(x) == IF x < 0 THEN 0 - x ELSE x

\* C21 as stated: the recorded gaps are the chronological ones, maxDelay is
\* their maximum and averageInterval is their mean, both 0 when the number
\* occurs fewer than 2 times.
C21_Original ==
    pc = "done" =>
        \A n \in 1..config.totalNumbers :
            LET gaps == ChronologicalGaps(n)
            IN /\ Reversed(RecordedGaps(n)) = gaps
               /\ StatsOf(n).maxDelay = (IF gaps = <<>> THEN 0 ELSE MaxOfSeq(gaps))
               /\ StatsOf(n).avgInterval * Len(gaps) = 100 * SumSeq(gaps)
               /\ gaps = <<>> => StatsOf(n).avgInterval = 0

\* C21 amended: the gaps recorded while traversing the newest-first history
\* are exactly the gaps between consecutive occurrences in chronological
\* order (recorded newest gap first), maxDelay is their maximum and
\* averageInterval is their mean rounded to two decimals, both 0 when the
\* number occurs fewer than 2 times.
C21_ChronologicalGaps ==
    pc = "done" =>
        \A n \in 1..config.totalNumbers :
            LET gaps == ChronologicalGaps(n)
            IN /\ Reversed(RecordedGaps(n)) = gaps
               /\ StatsOf(n).maxDelay = (IF gaps = <<>> THEN 0 ELSE MaxOfSeq(gaps))
               /\ 2 * Abs(100 * SumSeq(gaps) - StatsOf(n).avgInterval * Len(gaps)) <= Len(gaps)
               /\ gaps = <<>> => StatsOf(n).avgInterval = 0

\* a number occurs four times with gaps 1, 2, 2 in chronological order: the
\* mean 1.666... is reported as 1.67
C21_Witness ==
    /\ pc = "done"
    /\ \E n \in 1..config.totalNumbers :
          /\ ChronologicalGaps(n) = <<1, 2, 2>>
          /\ RecordedGaps(n) = <<2, 2, 1>>
          /\ StatsOf(n).avgInterval = 167
          /\ StatsOf(n).maxDelay = 2

(***************************************************************************)
(* Claims about the header detection (SpecHeader)                          *)
(***************************************************************************)
\* the rows among the first ten of the uploaded grid, 0-based, that carry a
\* contest label, a date label and at least drawSize number-slot labels
StrictRows ==
    {i \in 0..9 : i < Len(ReadFileData(files[1])) /\ StrictHeaderAt(ReadFileData(files[1]), i, config)}

\* the rows among the first ten that carry a contest label and a date label
\* and are followed by a row with at least drawSize in-range values
LooseRows ==
    {i \in 0..9 : i < Len(ReadFileData(files[1])) /\ LooseHeaderAt(ReadFileData(files[1]), i, config)}

\* C22: the header detection looks for a header in the first 10 rows only.
\* It uses the strict strategy whenever one of them carries a contest
\* label, a date label and at least drawSize number-slot labels, taking the
\* first drawSize number-slot columns in column order, even if an earlier
\* row satisfies the loose strategy; it uses the loose strategy only when
\* no row satisfies strict; and header-not-found is signalled when neither
\* matches within those rows.
C22_HeaderStrategies ==
    (pc = "done" /\ ReadFileData(files[1]) # <<>>) =>
        LET header == HeaderOf(files[1])
            rawData == ReadFileData(files[1])
        IN /\ StrictRows # {} =>
                 /\ header.strict
                 /\ header.headerRowIndex = FirstRowOf(StrictRows)
                 /\ header.drawIndices =
                        SubSeq(DrawIndicesOf(rawData[header.headerRowIndex + 1]), 1, config.drawSize)
                 /\ error # FileError(files[1])
           /\ (StrictRows = {} /\ LooseRows # {}) =>
                 /\ ~header.strict
                 /\ header.headerRowIndex = FirstRowOf(LooseRows)
                 /\ error # FileError(files[1])
           /\ (StrictRows = {} /\ LooseRows = {}) =>
                 /\ header = NoHeader
                 /\ error = FileError(files[1])

\* a row satisfying loose comes before a row satisfying strict within the
\* first ten rows: the strict one is used and the draw below it is read
\* from its first two number-slot columns
C22_Witness ==
    /\ pc = "done"
    /\ StrictRows # {}
    /\ LooseRows # {}
    /\ FirstRowOf(LooseRows) < FirstRowOf(StrictRows)
    /\ HeaderOf(files[1]).strict
    /\ ReadFileData(files[1])[FirstRowOf(StrictRows) + 1] = ShuffledHeaderRow
    /\ Len(allDraws) = 1
    /\ allDraws[1].draw = <<1, 3>>

(***************************************************************************)
(* Claims about the pairs (SpecPairs)                                      *)
(***************************************************************************)
\* the number of draws of the history containing both a and b
DrawsWithBoth(a, b) == Cardinality(DrawsWith(a) \cap DrawsWith(b))

\* the pair counts processDraws keeps for the history
PairFrequencyMap == DrawLoop(EmptyMaps, allDraws, 0).pairFrequencyMap

\* the count kept in m for the pair {a, b}, a < b: 0 when the pair has no
\* entry
PairCount(m, a, b) == IF MapHas(m, <<a, b>>) THEN MapGet(m, <<a, b>>) ELSE 0

\* C23: for every unordered pair {a, b} its pair count is the number of
\* draws containing both a and b; topPairs holds at most 10 pairs, each with
\* count >= 1 (its own pair count) and its two numbers ascending, in
\* non-increasing count order, and no pair left out of topPairs has a count
\* greater than a pair that is listed.
C23_PairCounts ==
    pc = "done" =>
        LET top == analysisResult.topPairs
            listed == {top[i].pair : i \in 1..Len(top)}
            m == PairFrequencyMap
        IN /\ \A a, b \in 1..config.totalNumbers :
                 a < b => PairCount(m, a, b) = DrawsWithBoth(a, b)
           /\ Len(top) <= 10
           /\ Cardinality(listed) = Len(top)
           /\ \A i \in 1..Len(top) :
                 /\ top[i].count >= 1
                 /\ Len(top[i].pair) = 2
                 /\ top[i].pair[1] < top[i].pair[2]
                 /\ top[i].count = DrawsWithBoth(top[i].pair[1], top[i].pair[2])
           /\ \A i, j \in 1..Len(top) : i < j => top[i].count >= top[j].count
           /\ \A a, b \in 1..config.totalNumbers :
                 (a < b /\ <<a, b>> \notin listed) =>
                     \A i \in 1..Len(top) : DrawsWithBoth(a, b) <= top[i].count

\* more than ten pairs were drawn: a pair first met after ten others is
\* among the top pairs with a count above 1, and one met before it is not
C23_Witness ==
    /\ pc = "done"
    /\ Cardinality({p \in (1..config.totalNumbers) \X (1..config.totalNumbers) :
                       p[1] < p[2] /\ DrawsWithBoth(p[1], p[2]) >= 1}) > 10
    /\ Len(analysisResult.topPairs) = 10
    /\ LET m == PairFrequencyMap
           listed == {analysisResult.topPairs[i].pair : i \in 1..10}
       IN /\ \E k \in 11..Len(m) : m[k].val > 1 /\ m[k].key \in listed
          /\ \E k \in 1..10 : m[k].key \notin listed

(***************************************************************************)
(* Claims about the contest identifier in row-scan mode (SpecContest)      *)
(***************************************************************************)
\* the data row of the uploaded file
ContestRow == ReadFileData(files[1])[2]

\* the distinct in-range numbers held by the cells of the data row other
\* than the contest cell and the date cell
NumberCellValues == Range(NumbersInRange(SubSeq(ContestRow, 3, Len(ContestRow)), config))

\* C24: in row-scan mode the numbers of a draw come only from cells other
\* than the contest cell and the date cell: a row whose number cells hold
\* exactly drawSize distinct in-range numbers becomes a Draw with exactly
\* those numbers whatever its contest identifier is, and no Draw holds
\* another number.
C24_ContestNotCounted ==
    pc = "done" =>
        /\ Cardinality(NumberCellValues) = config.drawSize =>
              /\ error = NoError
              /\ Len(allDraws) = 1
              /\ allDraws[1].contest = ContestRow[1]
              /\ Range(allDraws[1].draw) = NumberCellValues
        /\ \A i \in 1..Len(allDraws) : Range(allDraws[i].draw) \subseteq NumberCellValues

\* the date inputs hold what the upload filled in: the ISO dates of the
\* oldest and of the newest draw of the consolidated history
Prefilled ==
    /\ originalResult # NoResult
    /\ startDate = ToISODate(originalResult.allDraws[Len(originalResult.allDraws)].date, timeZone)
    /\ endDate = ToISODate(originalResult.allDraws[1].date, timeZone)

\* C28: applying the date filter with the dates the upload filled in keeps
\* every draw of the consolidated history and the filtered statistics equal
\* the unfiltered ones, whatever the UTC offset of the environment. The step
\* is the first application after the upload, with the date inputs as the
\* upload filled them.
C28_PrefilledRangeKeepsAll ==
    [][(pc = "done" /\ pc' = "filtered" /\ Prefilled) =>
          /\ allDraws' = originalResult.allDraws
          /\ [analysisResult' EXCEPT !.suggestions = originalResult.suggestions] = originalResult]_vars

(***************************************************************************)
(* Claims about contest identifiers of mixed types (SpecKeys)              *)
(***************************************************************************)
\* String(contest): the text of a contest identifier
ContestText(contest) ==
    IF contest.k = "number"
    THEN <<"0", "1", "2", "3", "4", "5", "6", "7", "8", "9">>[contest.v + 1]
    ELSE contest.v

\* C27: no two draws of the consolidated history have contest identifiers
\* with the same textual value: the number 4 of one file and the string "4"
\* of another are the same contest, which appears once
C27_OneDrawPerContestText ==
    (pc = "done" /\ error = NoError) =>
        \A i, j \in 1..Len(allDraws) :
            i # j => ContestText(allDraws[i].contest) # ContestText(allDraws[j].contest)

(***************************************************************************)
(* Claims about the contests of each number (SpecStats)                    *)
(***************************************************************************)
\* the contest identifiers of the draws that hold n, in the order of the
\* history
ContestsHolding(n) ==
    LET holding == Filter(allDraws, LAMBDA d : n \in Range(d.draw))
    IN [i \in 1..Len(holding) |-> holding[i].contest]

\* C30: for every number n of 1..totalNumbers, drawsByNumber holds one entry
\* for n; its contest list has as many elements as the frequency count of n
\* and lists exactly the contests of the draws that hold n (none when n was
\* never drawn)
C30_DrawsByNumber ==
    pc = "done" =>
        \A n \in 1..config.totalNumbers :
            /\ Cardinality({i \in 1..Len(analysisResult.drawsByNumber) :
                               analysisResult.drawsByNumber[i].key = n}) = 1
            /\ \E i \in 1..Len(analysisResult.frequencies) :
                  /\ analysisResult.frequencies[i].number = n
                  /\ analysisResult.frequencies[i].count =
                        Len(MapGet(analysisResult.drawsByNumber, n))
            /\ MapGet(analysisResult.drawsByNumber, n) = ContestsHolding(n)

\* a number drawn in more than one contest and a number never drawn
C30_Witness ==
    /\ pc = "done"
    /\ \E n \in 1..config.totalNumbers : Len(MapGet(analysisResult.drawsByNumber, n)) >= 2
    /\ \E n \in 1..config.totalNumbers : MapGet(analysisResult.drawsByNumber, n) = <<>>

(***************************************************************************)
(* Claims about the custom game (SpecCustom)                               *)
(***************************************************************************)
NoDuplicates(s) == \A i, j \in 1..Len(s) : i # j => s[i] # s[j]

\* what one click on number makes of the list prev, as the claim states it
ClickedOn(prev, next, number) ==
    IF \E i \in 1..Len(prev) : prev[i] = number
    THEN /\ Len(next) = Len(prev) - 1
         /\ Range(next) = Range(prev) \ {number}
         /\ \A i, j \in 1..Len(next) : i < j =>
               \E h, l \in 1..Len(prev) : h < l /\ prev[h] = next[i] /\ prev[l] = next[j]
    ELSE IF Len(prev) < 2
         THEN next = prev \o <<number>>
         ELSE next = <<prev[2], number>>

\* C29: the hot and the cold selection each hold at most two numbers and no
\* number twice; a step that changes one of them leaves the other as it was
\* and is one click: on a selected number it removes that number and nothing
\* else, on a third number it evicts the oldest entry and appends the new one
C29_SelectionLists ==
    [][/\ Len(selectedHot') <= 2 /\ NoDuplicates(selectedHot')
       /\ Len(selectedCold') <= 2 /\ NoDuplicates(selectedCold')
       /\ selectedHot' # selectedHot =>
             /\ selectedCold' = selectedCold
             /\ \E number \in 1..config.totalNumbers :
                   ClickedOn(selectedHot, selectedHot', number)
       /\ selectedCold' # selectedCold =>
             /\ selectedHot' = selectedHot
             /\ \E number \in 1..config.totalNumbers :
                   ClickedOn(selectedCold, selectedCold', number)]_vars

\* two numbers are selected in each list, the hot list after an eviction:
\* its oldest entry is not the number shown first
C29_Witness ==
    /\ Len(selectedHot) = 2 /\ Len(selectedCold) = 2
    /\ analysisResult # NoResult
    /\ config.hotCount = 3
    /\ selectedHot[1] # analysisResult.frequencies[1].number
    /\ selectedHot[2] = analysisResult.frequencies[1].number

Ascending(s) == \A i \in 1..(Len(s) - 1) : s[i] < s[i + 1]

\* C25: the custom game built from two selected hot and two selected cold
\* numbers has exactly betSize pairwise distinct numbers in ascending order,
\* for every profile and every frequency table
C25_CustomGame ==
    selectedSuggestionType = "custom" =>
        /\ Len(selectedSuggestion) = config.betSize
        /\ NoDuplicates(selectedSuggestion)
        /\ Ascending(selectedSuggestion)

(***************************************************************************)
(* Claims about the AI summary (SpecGemini)                                *)
(***************************************************************************)
\* C26: whenever an AI summary is displayed, it was generated from the
\* statistics and suggestions that are displayed at that moment
C26_SummaryOfDisplayed ==
    (geminiAnalysis # NoSummary /\ analysisResult # NoResult) =>
        geminiAnalysis.prompt = Prompt(analysisResult, suggestions)

(***************************************************************************)
(* Claims about repeated invocations (SpecRegenerate)                      *)
(***************************************************************************)
\* the games an invocation may return once the module holds scope
ReturnedBy(freqs, cfg, scope) == {call.returned : call \in Invocations(freqs, cfg, scope)}

====
